---- MODULE Spec2Model ----
(***************************************************************************)
(* A model of the giulio-lang tree-walking interpreter: the lexically      *)
(* scoped environment chain (interpreter/env.rs), statement and block      *)
(* evaluation (interpreter/eval.rs), the expression helpers               *)
(* (interpreter/helpers/*.rs), try/catch/finally and the async call path.  *)
(*                                                                         *)
(* The module holds several specifications over one set of variables; a   *)
(* specification leaves the variables of the other parts at their initial *)
(* values.                                                                 *)
(*   SpecEnv   : frames, calls, method calls, let statements               *)
(*   SpecBlock : eval_program over the statements of a top-level block     *)
(*   SpecTry   : eval_try_catch_expr, body by body                           *)
(*   SpecAsync : async calls, spawned tasks, futures and their awaiters      *)
(*   SpecModule: the module registry and import statements                   *)
(*   SpecMethod: method calls on a struct held by a variable                 *)
(*   SpecData  : array and hash literals, index reads and assignments        *)
(*   SpecCalc  : one prefix or infix operation on evaluated operands         *)
(*   SpecParse : parse_expr on a token sequence                              *)
(*   SpecAwait : validate_await_usage on a program                           *)
(*   SpecLock  : get and set of concurrent threads on the frame mutexes      *)
(*   SpecArgs  : the arguments of one async call                             *)
(*   SpecShared: index assignments of two tasks on one array                 *)
(*   SpecNest  : one load_module and the loads nested inside it              *)
(*   SpecLoop  : one while, for-in or C-style for loop                       *)
(***************************************************************************)
EXTENDS Integers, Sequences, FiniteSets, TLC

VARIABLES
    frames,     \* env part: frame id -> [store, parent]   (Environment)
    nframes,    \* env part: number of frames created so far
    env,        \* env part: the evaluator's current frame  (Evaluator.env)
    stack,      \* env part: saved old_env of the calls in progress
    last,       \* env part: the operation performed by the last step
    nops,       \* env part: number of operations performed so far
    result,     \* block part: the value of the last statement evaluated
    nstmts,     \* block part: statements of the block evaluated so far
    pcB,        \* block part: "idle", "running" (inside eval_program) or "done"
    tc,         \* try part: the eval_try_catch_expr in progress
    procs,      \* async part: evaluator id -> its position and locals
    futures,    \* async part: handle id -> the Option inside Object::Future
    held,       \* async part: evaluator id -> the Future handles it can name
    awaits,     \* async part: the takes performed so far, in order
    registry,   \* module part: ModuleRegistry.loaded_modules
    fsys,       \* module part: module path -> what its .giu file holds now
    imports,    \* module part: import site -> the eval_import in progress
    mlog,       \* module part: file reads and successful loads so far
    calc,       \* operator part: the operation, its operands and its result
    parse,      \* parser part: the tokens given to parse_expr and what it returned
    awaitck,    \* await part: the program given to validate_await_usage and its verdict
    lk,         \* lock part: the frame mutexes and the get/set of each thread
    acall,      \* argument part: one eval_async_fn_call, its argument futures and bindings
    shared,     \* shared array part: two tasks assigning into one array variable
    nest,       \* loader part: the chain of nested loads of one load_module
    loop        \* loop part: one while, for-in or C-style for loop, iteration by iteration

envVars == <<frames, nframes, env, stack, last, nops>>
blockVars == <<result, nstmts, pcB>>
tryVars == <<tc>>
asyncVars == <<procs, futures, held, awaits>>
moduleVars == <<registry, fsys, imports, mlog>>
\* The parts added after the environment, block, try and async parts.
otherVars == <<awaitck, lk, acall, shared, nest, loop>>
restVars == <<moduleVars, calc, parse, otherVars>>

vars == <<frames, nframes, env, stack, last, nops, result, nstmts, pcB,
          tc, procs, futures, held, awaits, registry, fsys, imports, mlog, calc, parse,
          awaitck, lk, acall, shared, nest, loop>>

(***************************************************************************)
(* ENVIRONMENT  (interpreter/env.rs)                                       *)
(***************************************************************************)

\* Bounds of the environment part.
MaxFrames == 3
MaxVal == 2
MaxOps == 4

(***************************************************************************)
(* Runtime values (interpreter/obj.rs, enum Object).  Every value is a     *)
(* record of one shape: the variant t, an integer payload v, a string      *)
(* payload k and the boxed or contained values in.                         *)
(***************************************************************************)
Obj(t, v, k, in) == [t |-> t, v |-> v, k |-> k, in |-> in]

Integer(i) == Obj("Integer", i, "", <<>>)
Boolean(b) == Obj("Boolean", IF b THEN 1 ELSE 0, "", <<>>)
String(s) == Obj("String", 0, s, <<>>)
Array(elems) == Obj("Array", 0, "", elems)
Null == Obj("Null", 0, "", <<>>)
ReturnValue(o) == Obj("ReturnValue", 0, "", <<o>>)
ThrownValue(o) == Obj("ThrownValue", 0, "", <<o>>)
Break == Obj("Break", 0, "", <<>>)
Continue == Obj("Continue", 0, "", <<>>)
\* Object::Error(RuntimeError): the error kind and its fields.
Error(kind, fields) == Obj("Error", 0, kind, fields)
\* Object::Builtin(name, ..).
Builtin(name) == Obj("Builtin", 0, name, <<>>)
\* Object::Struct: an instance, its field contents abstracted to the number i.
Struct(i) == Obj("Struct", i, "", <<>>)
\* Object::BigInteger(BigInt): the integer itself, of any size.
BigInteger(i) == Obj("BigInteger", i, "", <<>>)
\* Object::Hash(HashMap<Object, Object>): the entries, each a key and a value.
\* A HashMap has no order of its own; the entries are kept in key order.
Entry(key, value) == Obj("Entry", 0, "", <<key, value>>)
Hash(entries) == Obj("Hash", 0, "", entries)

\* A store slot that holds no binding (HashMap has no entry for the name).
NoVal == Obj("NoVal", 0, "", <<>>)

VarNames == {"x", "y"}
BuiltinNames == {"len"}
\* The names the let statements of the programs explored bind.
LetNames == {"x", "len"}
\* The receiver expressions of the method calls explored.
Receivers == {"x", "this"}
\* "m" and "math" are the names import statements bind modules to.
Names == VarNames \cup BuiltinNames \cup {"this", "m", "math"}
\* The values bound in the environment part: struct instances.
Vals == {Struct(i) : i \in 1..MaxVal}
FrameIds == 1..MaxFrames

\* fill_env_with_builtins: every new frame holds the builtin table.
fill_env_with_builtins == [n \in Names |-> IF n \in BuiltinNames THEN Builtin(n) ELSE NoVal]

\* Environment::new(): the root frame, no parent.
EnvNew == [store |-> fill_env_with_builtins, parent |-> 0]

\* Environment::new_with_outer(outer).
new_with_outer(outer) == [store |-> fill_env_with_builtins, parent |-> outer]

\* Environment::get: the frame's own store, else the parent's get.
RECURSIVE EnvGet(_, _, _)
EnvGet(fs, f, name) ==
    IF fs[f].store[name] # NoVal
    THEN fs[f].store[name]
    ELSE IF fs[f].parent # 0
         THEN EnvGet(fs, fs[f].parent, name)
         ELSE NoVal

\* A set that always inserts in the frame it is called on.
RECURSIVE EnvSet(_, _, _, _)
EnvSetLocal(fs, f, name, val) == [fs EXCEPT ![f].store[name] = val]

\* Environment::set: own store if bound there; else the parent's set when the
\* parent's get finds the name; else insert in the own store.
EnvSet(fs, f, name, val) ==
    IF fs[f].store[name] # NoVal
    THEN [fs EXCEPT ![f].store[name] = val]
    ELSE IF fs[f].parent # 0 /\ EnvGet(fs, fs[f].parent, name) # NoVal
         THEN EnvSet(fs, fs[f].parent, name, val)
         ELSE [fs EXCEPT ![f].store[name] = val]

\* Bounds of the async part: evaluators (the top-level one and the spawned
\* tasks), the number of takes recorded and the number of steps taken.
MaxProcs == 4
MaxAwaits == 3
MaxSteps == 12
ProcIds == 1..MaxProcs

\* No try expression is being evaluated. An Option is a sequence of length
\* 0 (None) or 1 (Some).
TryInit ==
    tc = [pc |-> "idle", catch_ident |-> "", catch_body |-> <<>>,
          finally_body |-> <<>>, try_result |-> NoVal, final_result |-> NoVal,
          value |-> NoVal, try0 |-> NoVal, exception |-> <<>>, bound |-> NoVal,
          finally_result |-> NoVal, order |-> <<>>]

\* The top-level evaluator is not in an async context.
top_level_in_async_context == FALSE

\* Only the top-level evaluator (id 1) exists; no task, no Future.
AsyncInit ==
    /\ procs = [p \in ProcIds |->
                  [pc |-> IF p = 1 THEN "running" ELSE "unused",
                   in_async_context |-> top_level_in_async_context,
                   value |-> NoVal, result |-> NoVal, fut |-> 0, op |-> "none"]]
    /\ futures = [h \in ProcIds |-> "absent"]
    /\ held = [p \in ProcIds |-> {}]
    /\ awaits = <<>>

\* Bounds of the module part: import sites, steps and rewrites of a file.
MaxSites == 2
MaxModSteps == 6
MaxWrites == 1
SiteIds == 1..MaxSites
\* The module paths explored: a user module and a standard-library module.
UserPaths == {"m"}
StdPaths == {"math"}
ModPaths == UserPaths \cup StdPaths
\* The names a module of the programs explored can export.
ExportNames == {"x", "y"}

\* Module { name, exports }: exports[n] is NoVal when n is not exported.
Module(name, exports) == [name |-> name, exports |-> exports]
NoExports == [n \in ExportNames |-> NoVal]
NoModule == Module("", NoExports)
\* Result<Module, RuntimeError>.
Ok(module) == [ok |-> TRUE, module |-> module, err |-> NoVal]
Err(e) == [ok |-> FALSE, module |-> NoModule, err |-> e]
\* A .giu file: absent, or text that lexes and parses to prog or fails to.
File(kind, prog) == [kind |-> kind, prog |-> prog]
NoFile == File("missing", <<>>)
\* ast::ImportItems.
Items(kind, names) == [kind |-> kind, names |-> names]

\* ModuleRegistry::new: nothing loaded; no import in progress.
ModuleInit ==
    /\ registry = [loaded_modules |-> [p \in ModPaths |-> NoModule]]
    /\ imports = [c \in SiteIds |->
                    [pc |-> "idle", path |-> "", items |-> Items("All", <<>>),
                     source |-> NoFile, ret |-> Err(NoVal), value |-> NoVal,
                     hit |-> FALSE, after |-> FALSE, everr |-> FALSE]]
    /\ mlog = [nreads |-> [p \in ModPaths |-> 0],
               succeeded |-> [p \in ModPaths |-> FALSE], nwrites |-> 0]

\* The operator part at rest: no operation asked for.
CalcIdle ==
    calc = [op |-> "", a |-> Obj("Null", 0, "", <<>>), b |-> Obj("Null", 0, "", <<>>),
            r |-> Obj("Null", 0, "", <<>>), pc |-> "idle"]

\* The parser part at rest: nothing to parse.
ParseIdle == parse = [tokens |-> <<>>, pc |-> "idle", ok |-> FALSE, rest |-> <<>>]

\* The parts that one operator or parser application leaves alone.
Idle == [pc |-> "idle"]

AwaitIdle == awaitck = Idle
LockIdle == lk = Idle
ArgsIdle == acall = Idle
SharedIdle == shared = Idle
NestIdle == nest = Idle
LoopIdle == loop = Idle

OtherIdle ==
    /\ AwaitIdle /\ LockIdle /\ ArgsIdle /\ SharedIdle /\ NestIdle /\ LoopIdle

PureIdle == CalcIdle /\ ParseIdle /\ OtherIdle

RestInit == ModuleInit /\ fsys = [p \in ModPaths |-> NoFile] /\ PureIdle

\* The block part at rest.
BlockIdle == result = Obj("Null", 0, "", <<>>) /\ nstmts = 0 /\ pcB = "idle"

\* A frame id that is not in use yet holds the root-shaped record.
EnvInit ==
    /\ frames = [f \in FrameIds |-> EnvNew]
    /\ nframes = 1
    /\ env = 1
    /\ stack = <<>>
    /\ last = [op |-> "init", name |-> "", bound |-> "none"]
    /\ nops = 0

\* Where a name is bound, seen from frame f: "cur", "anc" or "none".
BoundWhere(fs, f, name) ==
    IF fs[f].store[name] # NoVal THEN "cur"
    ELSE IF EnvGet(fs, f, name) # NoVal THEN "anc"
    ELSE "none"

\* Evaluator::register_ident: env.lock().set(name, object).
register_ident(name, val) ==
    /\ frames' = EnvSet(frames, env, name, val)
    /\ last' = [op |-> "let", name |-> name,
                bound |-> BoundWhere(frames, env, name)]

\* eval_statement, Stmt::LetStmt(ident, expr): the value of expr is v.
LetStmt(name, v) ==
    /\ register_ident(name, v)
    /\ UNCHANGED <<nframes, env, stack>>

\* for (Ident(name), o) in zipped { new_env.set(&name, o) }
RECURSIVE BindParams(_, _, _, _)
BindParams(fs, f, params, args) ==
    IF params = <<>> THEN fs
    ELSE BindParams(EnvSet(fs, f, Head(params), Head(args)), f, Tail(params), Tail(args))

\* The parameter lists of the functions and methods of the programs explored.
ParamLists == {<<>>, <<"x">>, <<"x", "y">>}
ArgLists(k) == [1..k -> Vals]

\* eval_fn_call up to the evaluation of the body: a frame whose parent is the
\* function's captured environment, the parameters set in it, old_env saved.
FnCall(f_env, params, args) ==
    /\ nframes < MaxFrames
    /\ LET new == nframes + 1
           fs0 == [frames EXCEPT ![new] = new_with_outer(f_env)]
       IN /\ frames' = BindParams(fs0, new, params, args)
          /\ nframes' = new
          /\ env' = new
          /\ stack' = <<[kind |-> "fn", old |-> env, var |-> "", object |-> NoVal]>> \o stack
          /\ last' = [op |-> "call", name |-> "",
                      bound |-> IF \E i \in 1..Len(params) :
                                       BoundWhere(fs0, new, params[i]) = "anc"
                                THEN "anc" ELSE "none"]

\* eval_fn_call after the body: self.env = old_env.
FnReturn ==
    /\ stack # <<>>
    /\ Head(stack).kind = "fn"
    /\ env' = Head(stack).old
    /\ stack' = Tail(stack)
    /\ last' = [op |-> "return", name |-> "", bound |-> "none"]
    /\ UNCHANGED <<frames, nframes>>

\* eval_method_call up to the evaluation of the method body, for a receiver
\* that is a struct with the method: a frame whose parent is the caller's
\* environment, "this" set in it, then eval_fn_call_direct sets the parameters
\* through the current environment. recv is "this" for Expr::ThisExpr, else
\* the identifier of Expr::IdentExpr.
MethodCall(recv, params, args) ==
    /\ nframes < MaxFrames
    /\ EnvGet(frames, env, recv).t = "Struct"
    /\ LET new == nframes + 1
           object == EnvGet(frames, env, recv)
           fs0 == [frames EXCEPT ![new] = new_with_outer(env)]
           fs1 == EnvSet(fs0, new, "this", object)
       IN /\ frames' = BindParams(fs1, new, params, args)
          /\ nframes' = new
          /\ env' = new
          /\ stack' = <<[kind |-> "method", old |-> env,
                         var |-> IF recv = "this" THEN "" ELSE recv,
                         object |-> object]>> \o stack
          /\ last' = [op |-> "method", name |-> "this",
                      bound |-> BoundWhere(fs0, new, "this")]

\* eval_field_assign for Expr::ThisExpr: the struct read from "this", changed,
\* and written back with set("this", updated_struct).
FieldAssign(v) ==
    /\ EnvGet(frames, env, "this").t = "Struct"
    /\ frames' = EnvSet(frames, env, "this", v)
    /\ last' = [op |-> "field", name |-> "this",
                bound |-> BoundWhere(frames, env, "this")]
    /\ UNCHANGED <<nframes, env, stack>>

\* A method return that leaves the receiver variable as it is.
write_back_skipped(fs, old, var, modified_this) == fs

\* if let Some(var_name) = var_name_if_ident { env.set(&var_name, modified_this) }
write_back(fs, old, var, modified_this) ==
    IF var # "" THEN EnvSet(fs, old, var, modified_this) ELSE fs

\* eval_method_call after the method body: modified_this read in the method's
\* environment, old_env restored, and the receiver variable written back.
MethodReturn ==
    /\ stack # <<>>
    /\ Head(stack).kind = "method"
    /\ LET top == Head(stack)
           got == EnvGet(frames, env, "this")
           modified_this == IF got = NoVal THEN top.object ELSE got
       IN /\ env' = top.old
          /\ frames' = write_back(frames, top.old, top.var, modified_this)
          /\ last' = [op |-> "mreturn", name |-> top.var,
                      bound |-> IF modified_this # top.object
                                THEN "mutated" ELSE "same"]
    /\ stack' = Tail(stack)
    /\ UNCHANGED nframes

\* One evaluator operation on the environment, at most MaxOps of them.
EnvStep(A) ==
    /\ nops < MaxOps /\ A /\ nops' = nops + 1
    /\ UNCHANGED <<blockVars, tryVars, asyncVars, restVars>>

NextEnv ==
    \/ \E n \in LetNames, v \in Vals : EnvStep(LetStmt(n, v))
    \/ \E fe \in FrameIds, ps \in ParamLists :
          \E as \in ArgLists(Len(ps)) : fe <= nframes /\ EnvStep(FnCall(fe, ps, as))
    \/ EnvStep(FnReturn)
    \/ \E r \in Receivers, ps \in ParamLists :
          \E as \in ArgLists(Len(ps)) : EnvStep(MethodCall(r, ps, as))
    \/ \E v \in Vals : EnvStep(FieldAssign(v))
    \/ EnvStep(MethodReturn)

\* Bound of the method part: operations per behaviour.
MaxMethodOps == 5

\* One operation of a program that calls methods on a struct held by x.
MethodStep(A) ==
    /\ nops < MaxMethodOps /\ A /\ nops' = nops + 1
    /\ UNCHANGED <<blockVars, tryVars, asyncVars, restVars>>

NextMethod ==
    \/ \E r \in Receivers, ps \in ParamLists :
          \E as \in ArgLists(Len(ps)) : MethodStep(MethodCall(r, ps, as))
    \/ \E v \in Vals : MethodStep(FieldAssign(v))
    \/ MethodStep(MethodReturn)
    \/ \E n \in LetNames, v \in Vals : MethodStep(LetStmt(n, v))

\* The evaluator after `let x = S { .. }` at top level.
InitMethod ==
    /\ frames = [f \in FrameIds |->
                   IF f = 1 THEN [EnvNew EXCEPT !.store["x"] = Struct(1)] ELSE EnvNew]
    /\ nframes = 1
    /\ env = 1
    /\ stack = <<>>
    /\ last = [op |-> "init", name |-> "", bound |-> "none"]
    /\ nops = 0
    /\ BlockIdle /\ TryInit /\ AsyncInit /\ RestInit

SpecMethod == InitMethod /\ [][NextMethod]_vars

\* The evaluator after construction, no program being evaluated.
InitEnv == EnvInit /\ BlockIdle /\ TryInit /\ AsyncInit /\ RestInit

SpecEnv == InitEnv /\ [][NextEnv]_vars

(***************************************************************************)
(* Claims on the environment (checked under SpecEnv)                       *)
(***************************************************************************)

\* The frames from f outward to the root, nearest first.
RECURSIVE Chain(_, _)
Chain(fs, f) == IF fs[f].parent = 0 THEN <<f>> ELSE <<f>> \o Chain(fs, fs[f].parent)

\* The proper ancestors of f.
Ancestors(fs, f) == {Chain(fs, f)[i] : i \in 2..Len(Chain(fs, f))}

\* The nearest frame of f's chain that binds name, 0 when none does.
NearestBinding(fs, f, name) ==
    LET c == Chain(fs, f)
        I == {i \in 1..Len(c) : fs[c[i]].store[name] # NoVal}
    IN IF I = {} THEN 0 ELSE c[CHOOSE i \in I : \A j \in I : i <= j]

\* What set(name, v) called on frame f has to do to fs to give fs2.
SetContract(fs, fs2, f, name, v) ==
    LET t == NearestBinding(fs, f, name)
    IN /\ fs2 = [fs EXCEPT ![IF t = 0 THEN f ELSE t].store[name] = v]
       /\ EnvGet(fs2, f, name) = v

\* C1: Environment.set(name, v) called on the current frame (by a let
\* statement or by the write-back of this.field = v) replaces the binding of
\* the nearest frame of the chain that binds name, or inserts name in the
\* current frame when no frame binds it; no other binding of any frame
\* changes, and get(name) from the current frame then returns v.
C1_SetUpdatesNearest ==
    [][ /\ \A n \in LetNames, v \in Vals :
             LetStmt(n, v) => SetContract(frames, frames', env, n, v)
        /\ \A v \in Vals :
             FieldAssign(v) => SetContract(frames, frames', env, "this", v)
      ]_vars

\* C1 witness: a let has run in a frame whose parent does not bind the name
\* either, while a frame further out does.
C1_Witness ==
    /\ last.op = "let"
    /\ last.bound = "anc"
    /\ frames[env].parent # 0
    /\ frames[frames[env].parent].store[last.name] = NoVal
    /\ frames[frames[env].parent].parent # 0

\* C2 as claimed: a let of n in a child frame, n bound in an ancestor, binds
\* n in the current frame and leaves every ancestor's binding of n as it was.
C2_LetShadowsAncestor ==
    [][ \A n \in LetNames, v \in Vals :
          ( /\ LetStmt(n, v)
            /\ frames[env].parent # 0
            /\ \E a \in Ancestors(frames, env) : frames[a].store[n] # NoVal )
          => /\ frames'[env].store[n] = v
             /\ \A a \in Ancestors(frames, env) : frames'[a].store[n] = frames[a].store[n]
      ]_vars

\* C3 as claimed: the bindings made for a call (the parameters of a function
\* call, "this" and the parameters of a method call) go to the frame built
\* for the call and change no frame that existed before the call.
C3_CallBindsInNewFrame ==
    [][ /\ \A fe \in FrameIds, ps \in ParamLists : \A as \in ArgLists(Len(ps)) :
             (fe <= nframes /\ FnCall(fe, ps, as))
             => \A f \in 1..nframes : frames'[f] = frames[f]
        /\ \A r \in Receivers, ps \in ParamLists : \A as \in ArgLists(Len(ps)) :
             MethodCall(r, ps, as)
             => \A f \in 1..nframes : frames'[f] = frames[f]
      ]_vars

\* C14: a field assignment in a method body makes `this` the changed struct,
\* and when the method returns, the receiver's slot in the caller's
\* environment (the receiver variable for `c.inc()`, the caller's `this` for
\* `this.inc()`) holds the struct that `this` held at the end of the body.
C14_ReceiverHoldsMutatedThis ==
    [][ /\ \A v \in Vals : FieldAssign(v) => EnvGet(frames', env', "this") = v
        /\ MethodReturn
             => LET top == Head(stack)
                    slot == IF top.var = "" THEN "this" ELSE top.var
                IN EnvGet(frames, env, "this").t = "Struct"
                   => EnvGet(frames', env', slot) = EnvGet(frames, env, "this")
      ]_vars

\* `x.inc()` returned with a struct other than the one x held at the call.
C14_Witness ==
    /\ last.op = "mreturn" /\ last.name = "x" /\ last.bound = "mutated"
    /\ EnvGet(frames, env, "x").t = "Struct"

\* `this.inc()` returned inside another method with `this` changed by the body.
C14_WitnessThis ==
    /\ last.op = "mreturn" /\ last.name = "" /\ last.bound = "mutated"
    /\ stack # <<>> /\ Head(stack).kind = "method"
    /\ EnvGet(frames, env, "this").t = "Struct"

(***************************************************************************)
(* EXPRESSIONS  (ast/ast.rs, interpreter/helpers/eval_expressions.rs,      *)
(* obj_operations.rs, type_converters.rs, data_structures.rs)              *)
(***************************************************************************)

\* ast::Expr, every variant a record of one shape.
Ex(e, op, name, lit, args) == [e |-> e, op |-> op, name |-> name, lit |-> lit, args |-> args]
LitExpr(o) == Ex("Lit", "", "", o, <<>>)
IdentExpr(n) == Ex("Ident", "", n, Null, <<>>)
PrefixExpr(op, a) == Ex("Prefix", op, "", Null, <<a>>)
InfixExpr(op, a, b) == Ex("Infix", op, "", Null, <<a, b>>)
ArrayExpr(es) == Ex("Array", "", "", Null, es)
IndexExpr(a, i) == Ex("Index", "", "", Null, <<a, i>>)

\* Object::type_name.
type_name(o) ==
    CASE o.t = "Integer" -> "integer"
      [] o.t = "Boolean" -> "boolean"
      [] o.t = "String" -> "string"
      [] o.t = "Array" -> "array"
      [] o.t = "BigInteger" -> "bigInteger"
      [] o.t = "Hash" -> "hash"
      [] o.t = "Builtin" -> "builtin function"
      [] o.t = "Null" -> "null"
      [] o.t = "ReturnValue" -> "return value"
      [] o.t = "Error" -> "error"
      [] o.t = "Struct" -> "struct"
      [] o.t = "Break" -> "break"
      [] o.t = "Continue" -> "continue"
      [] o.t = "ThrownValue" -> "thrown value"
      [] OTHER -> "unknown"

\* RuntimeError variants, as Object::Error values.
UndefinedVariable(name) == Error("UndefinedVariable", <<String(name)>>)
TypeMismatch(expected, got) == Error("TypeMismatch", <<String(expected), String(got)>>)
InvalidOperation(msg) == Error("InvalidOperation", <<String(msg)>>)
DivisionByZero == Error("DivisionByZero", <<>>)
IndexOutOfBounds(index, length) == Error("IndexOutOfBounds", <<Integer(index), Integer(length)>>)
NotHashable(tn) == Error("NotHashable", <<String(tn)>>)

\* impl PartialEq for Object: same variant and equal contents for the variants
\* the impl lists; every other pair, a pair of structs included, is unequal.
RECURSIVE ObjEq(_, _)
ObjEq(a, b) ==
    IF a.t # b.t THEN FALSE
    ELSE CASE a.t \in {"Integer", "Boolean", "BigInteger"} -> a.v = b.v
           [] a.t = "String" -> a.k = b.k
           [] a.t \in {"Array", "ReturnValue", "ThrownValue"} ->
                /\ Len(a.in) = Len(b.in)
                /\ \A i \in 1..Len(a.in) : ObjEq(a.in[i], b.in[i])
           [] a.t = "Error" -> a.k = b.k /\ a.in = b.in
           [] a.t \in {"Null", "Break", "Continue"} -> TRUE
           [] a.t = "Builtin" -> a.k = b.k
           [] a.t = "Hash" ->
                /\ Len(a.in) = Len(b.in)
                /\ \A i \in 1..Len(a.in) : \E j \in 1..Len(b.in) :
                      /\ ObjEq(a.in[i].in[1], b.in[j].in[1])
                      /\ ObjEq(a.in[i].in[2], b.in[j].in[2])
           [] OTHER -> FALSE

\* obj_to_bool: Ok(b) is the Boolean itself, Err(e) the Error object.
obj_to_bool(o) ==
    CASE o.t = "Boolean" -> o
      [] o.t = "Error" -> o
      [] OTHER -> TypeMismatch("boolean", type_name(o))

\* The width of i64 in this model. BigInt arithmetic is exact and the code
\* depends on the width only through the range test of to_i64, so the range
\* is scaled to I64Bits bits and every value near its two ends is kept.
I64Bits == 12
I64_MAX == 2 ^ (I64Bits - 1) - 1
I64_MIN == -(2 ^ (I64Bits - 1))

\* BigInt::to_i64: Some(i) when the value fits, None otherwise.
to_i64(n) == IF I64_MIN <= n /\ n <= I64_MAX THEN <<n>> ELSE <<>>

\* to_bigint: Some(BigInt) for Integer and BigInteger, None for the rest.
to_bigint(o) == IF o.t \in {"Integer", "BigInteger"} THEN <<o.v>> ELSE <<>>

\* obj_to_int, likewise: the Integer on Ok, the Error on Err.
obj_to_int(o) ==
    CASE o.t = "Integer" -> o
      [] o.t = "BigInteger" ->
            IF to_i64(o.v) # <<>> THEN Integer(to_i64(o.v)[1])
            ELSE InvalidOperation("Integer too large to convert to i64")
      [] o.t = "Error" -> o
      [] OTHER -> TypeMismatch("integer", type_name(o))

\* A normalisation that keeps every result an Integer, whatever its size.
normalize_int_wrapping(n) == Integer(n)

\* normalize_int: Integer when the value fits i64, BigInteger otherwise.
normalize_int(n) == IF to_i64(n) # <<>> THEN Integer(to_i64(n)[1]) ELSE BigInteger(n)

\* BigInt division and remainder truncate toward zero.
TruncDiv(a, b) ==
    LET q == (IF a < 0 THEN -a ELSE a) \div (IF b < 0 THEN -b ELSE b)
    IN IF (a < 0) = (b < 0) THEN q ELSE -q
TruncRem(a, b) == a - b * TruncDiv(a, b)

\* type_mismatch_error("number", obj1, obj2).
type_mismatch_error(o1, o2) ==
    Error("TypeMismatch", <<String("number"), String(type_name(o1)), String(type_name(o2))>>)

\* gen_numeric_op!: the arithmetic of the operator on two integers.
NumericOp(op, a, b) ==
    CASE op = "Minus" -> a - b
      [] op = "Multiply" -> a * b
      [] op = "Divide" -> TruncDiv(a, b)
      [] op = "Modulo" -> TruncRem(a, b)

\* gen_numeric_op!: object_subtract, object_multiply, object_divide and
\* object_modulo (is_div is true for the last two).
gen_numeric_op(op, o1, o2) ==
    IF o1.t = "Error" THEN o1
    ELSE IF o2.t = "Error" THEN o2
    ELSE IF to_bigint(o1) # <<>> /\ to_bigint(o2) # <<>>
         THEN IF op \in {"Divide", "Modulo"} /\ to_bigint(o2)[1] = 0
              THEN DivisionByZero
              ELSE normalize_int(NumericOp(op, to_bigint(o1)[1], to_bigint(o2)[1]))
         ELSE type_mismatch_error(o1, o2)

\* gen_compare_op!: object_compare_lt (the other three differ in the operator).
gen_compare_op(op, o1, o2) ==
    IF o1.t = "Error" THEN o1
    ELSE IF o2.t = "Error" THEN o2
    ELSE IF to_bigint(o1) # <<>> /\ to_bigint(o2) # <<>>
         THEN Boolean(CASE op = "LessThan" -> o1.v < o2.v
                        [] op = "GreaterThan" -> o1.v > o2.v
                        [] op = "LessThanEqual" -> o1.v <= o2.v
                        [] op = "GreaterThanEqual" -> o1.v >= o2.v)
         ELSE type_mismatch_error(o1, o2)

\* object_add.
object_add(o1, o2) ==
    IF o1.t = "Error" THEN o1
    ELSE IF o2.t = "Error" THEN o2
    ELSE IF o1.t = "String" /\ o2.t = "String" THEN String(o1.k \o o2.k)
    ELSE IF to_bigint(o1) # <<>> /\ to_bigint(o2) # <<>>
         THEN normalize_int(to_bigint(o1)[1] + to_bigint(o2)[1])
    ELSE Error("InvalidOperation", <<String("cannot add"), String(type_name(o1)), String(type_name(o2))>>)

\* The == arm of eval_infix: Object::Boolean(object1 == object2), whatever
\* the operands are.
InfixEqual(o1, o2) == Boolean(ObjEq(o1, o2))

\* The != arm of eval_infix.
InfixNotEqual(o1, o2) == Boolean(~ObjEq(o1, o2))

\* The && and || arms of eval_infix: (Err(err), _) | (_, Err(err)) => err.
InfixLogic(op, o1, o2) ==
    LET b1 == obj_to_bool(o1)
        b2 == obj_to_bool(o2)
    IN IF b1.t = "Boolean" /\ b2.t = "Boolean"
       THEN Boolean(IF op = "And" THEN b1.v = 1 /\ b2.v = 1 ELSE b1.v = 1 \/ b2.v = 1)
       ELSE IF b1.t # "Boolean" THEN b1 ELSE b2

\* eval_infix after both operands are evaluated.
eval_infix(op, o1, o2) ==
    CASE op = "Plus" -> object_add(o1, o2)
      [] op \in {"Minus", "Multiply", "Divide", "Modulo"} -> gen_numeric_op(op, o1, o2)
      [] op = "Equal" -> InfixEqual(o1, o2)
      [] op = "NotEqual" -> InfixNotEqual(o1, o2)
      [] op \in {"LessThan", "GreaterThan", "LessThanEqual", "GreaterThanEqual"} ->
            gen_compare_op(op, o1, o2)
      [] op \in {"And", "Or"} -> InfixLogic(op, o1, o2)

\* i64::checked_neg: None for i64::MIN, whose negation does not fit.
checked_neg(i) == IF i = I64_MIN THEN <<>> ELSE <<-i>>

\* eval_prefix after the operand is evaluated.
eval_prefix(op, o) ==
    CASE op = "Not" ->
            LET b == obj_to_bool(o) IN IF b.t = "Boolean" THEN Boolean(b.v = 0) ELSE b
      [] op = "PrefixPlus" ->
            IF o.t \in {"Integer", "BigInteger"} THEN o
            ELSE IF o.t = "Error" THEN o
            ELSE TypeMismatch("integer", type_name(o))
      [] op = "PrefixMinus" ->
            IF o.t = "Integer"
            THEN IF checked_neg(o.v) # <<>> THEN Integer(checked_neg(o.v)[1])
                 ELSE BigInteger(-o.v)
            ELSE IF o.t = "BigInteger" THEN normalize_int(-o.v)
            ELSE IF o.t = "Error" THEN o
            ELSE TypeMismatch("integer", type_name(o))

\* eval_array after the elements are evaluated: every value is pushed.
eval_array(objs) == Array(objs)

\* obj_to_hash: the key itself when it is hashable, the Error otherwise.
obj_to_hash(o) ==
    IF o.t \in {"Integer", "BigInteger", "Boolean", "String", "Error"} THEN o
    ELSE NotHashable(type_name(o))

\* The place of a key in the order the entries are kept in.
KeyRank(key) ==
    CASE key.t = "Integer" -> 0
      [] key.t = "BigInteger" -> 1
      [] key.t = "Boolean" -> 2
      [] key.t = "String" -> 3
      [] OTHER -> 4
KeyBefore(k1, k2) ==
    \/ KeyRank(k1) < KeyRank(k2)
    \/ /\ KeyRank(k1) = KeyRank(k2)
       /\ IF k1.t = "String" THEN k1.k = "a" /\ k2.k # "a" ELSE k1.v < k2.v

\* HashMap::remove: the entries without the key, and the value it had.
hash_without(entries, key) == SelectSeq(entries, LAMBDA e : ~ObjEq(e.in[1], key))
hash_value(entries, key) ==
    LET hit == SelectSeq(entries, LAMBDA e : ObjEq(e.in[1], key))
    IN IF hit = <<>> THEN <<>> ELSE <<hit[1].in[2]>>

\* HashMap::insert: the entry of the key is replaced or added.
hash_insert(entries, key, value) ==
    LET rest == hash_without(entries, key)
    IN SelectSeq(rest, LAMBDA e : KeyBefore(e.in[1], key))
       \o <<Entry(key, value)>>
       \o SelectSeq(rest, LAMBDA e : ~KeyBefore(e.in[1], key))

\* A lookup that reports an absent key as an error.
hash_remove_or_error(entries, key) ==
    IF hash_value(entries, key) = <<>> THEN NotHashable("absent")
    ELSE hash_value(entries, key)[1]

\* hash.remove(&name).unwrap_or(Object::Null) on the evaluator's own copy.
hash_remove_or_null(entries, key) ==
    IF hash_value(entries, key) = <<>> THEN Null ELSE hash_value(entries, key)[1]

\* eval_index after target and index are evaluated. The target is the value
\* eval_expr returned, a clone of what the environment holds.
eval_index(target, index) ==
    IF target.t = "Array"
    THEN LET n == obj_to_int(index)
         IN IF n.t # "Integer" THEN n
            ELSE IF n.v < 0 \/ n.v >= Len(target.in)
                 THEN IndexOutOfBounds(n.v, Len(target.in))
                 ELSE target.in[n.v + 1]
    ELSE IF target.t = "Hash"
    THEN LET name == obj_to_hash(index)
         IN IF name.t = "Error" THEN name
            ELSE hash_remove_or_null(target.in, name)
    ELSE NotHashable(type_name(target))

\* eval_ident.
eval_ident(fs, f, name) ==
    LET var == EnvGet(fs, f, name)
    IN IF var = NoVal THEN UndefinedVariable(name) ELSE var

\* eval_expr: the operands first, left to right, then the operator.
RECURSIVE EvalExpr(_, _, _)
EvalExpr(ex, fs, f) ==
    CASE ex.e = "Lit" -> ex.lit
      [] ex.e = "Ident" -> eval_ident(fs, f, ex.name)
      [] ex.e = "Prefix" -> eval_prefix(ex.op, EvalExpr(ex.args[1], fs, f))
      [] ex.e = "Infix" ->
            eval_infix(ex.op, EvalExpr(ex.args[1], fs, f), EvalExpr(ex.args[2], fs, f))
      [] ex.e = "Array" ->
            eval_array([i \in 1..Len(ex.args) |-> EvalExpr(ex.args[i], fs, f)])
      [] ex.e = "Index" ->
            eval_index(EvalExpr(ex.args[1], fs, f), EvalExpr(ex.args[2], fs, f))

(***************************************************************************)
(* STATEMENTS AND BLOCKS  (interpreter/eval.rs)                            *)
(***************************************************************************)

\* Bound of the block part: the longest block explored.
MaxStmts == 3

\* ast::Stmt, every variant a record of one shape.
St(s, name, expr) == [s |-> s, name |-> name, expr |-> expr]
StmtLet(n, e) == St("LetStmt", n, e)
StmtAssign(n, e) == St("AssignStmt", n, e)
StmtExpr(e) == St("ExprStmt", "", e)
StmtReturn(e) == St("ReturnStmt", "", e)
StmtThrow(e) == St("ThrowStmt", "", e)
StmtBreak == St("BreakStmt", "", LitExpr(Null))
StmtContinue == St("ContinueStmt", "", LitExpr(Null))

\* Evaluator::returned: one layer of ReturnValue stripped.
returned(o) == IF o.t = "ReturnValue" THEN o.in[1] ELSE o

\* Stmt::ThrowStmt(e): the value of e wrapped as ThrownValue.
eval_throw(o) == ThrownValue(o)

\* eval_statement: the value of the statement and the frames after it.
EvalStatement(st, fs, f) ==
    LET object == EvalExpr(st.expr, fs, f)
    IN CASE st.s = "ExprStmt" -> [val |-> object, fs |-> fs]
         [] st.s = "ReturnStmt" -> [val |-> ReturnValue(object), fs |-> fs]
         [] st.s = "LetStmt" -> [val |-> object, fs |-> EnvSet(fs, f, st.name, object)]
         [] st.s = "AssignStmt" ->
               IF EnvGet(fs, f, st.name) = NoVal
               THEN [val |-> UndefinedVariable(st.name), fs |-> fs]
               ELSE [val |-> object, fs |-> EnvSet(fs, f, st.name, object)]
         [] st.s = "BreakStmt" -> [val |-> Break, fs |-> fs]
         [] st.s = "ContinueStmt" -> [val |-> Continue, fs |-> fs]
         [] st.s = "ThrowStmt" -> [val |-> eval_throw(object), fs |-> fs]

\* eval_blockstmt, the match on the value of a statement that is not the
\* last one: these values end the block, every other one recurses.
BlockStops(object) == object.t \in {"ReturnValue", "Break", "Continue", "Error"}

\* eval_blockstmt: Null for no statement, the statement's value for one,
\* else the first statement and, unless its value ends the block, the rest.
RECURSIVE eval_blockstmt(_, _, _)
eval_blockstmt(prog, fs, f) ==
    IF Len(prog) = 0 THEN [val |-> Null, fs |-> fs]
    ELSE IF Len(prog) = 1 THEN EvalStatement(prog[1], fs, f)
    ELSE LET r == EvalStatement(Head(prog), fs, f)
         IN IF BlockStops(r.val) THEN r ELSE eval_blockstmt(Tail(prog), r.fs, f)

\* The expressions of the programs explored.
Operands == {LitExpr(Integer(1)), IdentExpr("x"), IdentExpr("y")}
Atoms == Operands \cup {LitExpr(Integer(0)), LitExpr(Boolean(TRUE))}
PrefixOps == {"Not", "PrefixMinus"}
InfixOps == {"Plus", "Divide", "Equal", "NotEqual", "And"}
CompoundExprs ==
    {PrefixExpr(op, a) : op \in PrefixOps, a \in Operands}
    \cup {InfixExpr(op, a, b) : op \in InfixOps, a \in Operands, b \in Operands}
    \cup {ArrayExpr(<<a, b>>) : a \in Operands, b \in Operands}
    \cup {IndexExpr(IdentExpr("x"), a) : a \in Operands}
Exprs == Atoms \cup CompoundExprs

\* The statements of the programs explored.
Stmts ==
    {StmtLet("x", e) : e \in Exprs}
    \cup {StmtExpr(e) : e \in Exprs}
    \cup {StmtAssign("x", e) : e \in Operands}
    \cup {StmtReturn(e) : e \in Operands}
    \cup {StmtThrow(e) : e \in Operands}
    \cup {StmtBreak, StmtContinue}

\* eval_program is called on a block; no statement is evaluated yet.
BlockInit == result = Null /\ nstmts = 0 /\ pcB = "running"

\* eval_blockstmt reaches the next statement st of the block: it is evaluated
\* when it is the first one or the value before it did not end the block.
EvalStatementStep(st) ==
    /\ pcB = "running"
    /\ nstmts < MaxStmts
    /\ nstmts = 0 \/ ~BlockStops(result)
    /\ LET r == EvalStatement(st, frames, env)
       IN frames' = r.fs /\ result' = r.val
    /\ nstmts' = nstmts + 1
    /\ UNCHANGED <<nframes, env, stack, last, nops, pcB, tryVars, asyncVars, restVars>>

\* The block has no further statement, or a value ended it: eval_blockstmt
\* returns and eval_program strips one ReturnValue.
ProgramEnd ==
    /\ pcB = "running"
    /\ result' = returned(result)
    /\ pcB' = "done"
    /\ UNCHANGED <<frames, nframes, env, stack, last, nops, nstmts, tryVars, asyncVars, restVars>>

NextBlock ==
    \/ \E st \in Stmts : EvalStatementStep(st)
    \/ ProgramEnd

\* The evaluator after construction, about to evaluate a program.
InitBlock == EnvInit /\ BlockInit /\ TryInit /\ AsyncInit /\ RestInit

SpecBlock == InitBlock /\ [][NextBlock]_vars

(***************************************************************************)
(* Claims on blocks and expressions (checked under SpecBlock)              *)
(***************************************************************************)

\* The values that are control flow, not data (the claims' list).
ControlFlowTags == {"ReturnValue", "Break", "Continue", "Error", "ThrownValue"}

\* C4 as claimed: once a statement of the block has yielded ReturnValue, Break,
\* Continue, Error or ThrownValue, no further statement of the block is
\* evaluated, the environment stays as it is, and the block returns that
\* value (eval_program stripping one ReturnValue).
C4_BlockStopsAtControlFlow ==
    [][ (pcB = "running" /\ nstmts > 0 /\ result.t \in ControlFlowTags)
        => /\ nstmts' = nstmts
           /\ frames' = frames
           /\ pcB' = "done" => result' = returned(result)
      ]_vars

\* A value that is, or contains as an array element, a control-flow value.
RECURSIVE HoldsControlFlow(_)
HoldsControlFlow(o) ==
    \/ o.t \in ControlFlowTags
    \/ o.t = "Array" /\ \E i \in 1..Len(o.in) : HoldsControlFlow(o.in[i])

\* C5 as claimed: after a completed top-level eval_program no variable binding
\* of any frame and no array element holds ReturnValue, Break, Continue, Error
\* or ThrownValue.
C5_NoControlFlowInSlots ==
    pcB = "done" =>
        \A f \in 1..nframes, n \in Names : ~HoldsControlFlow(frames[f].store[n])

\* The Error values the direct subexpressions of ex evaluate to.
SubErrors(ex, fs, f) ==
    {o \in {EvalExpr(ex.args[i], fs, f) : i \in 1..Len(ex.args)} : o.t = "Error"}

\* C6 as claimed: when a subexpression of a compound expression (infix with
\* == and != included, prefix, array literal, index) evaluates to Error(e),
\* the compound expression evaluates to that same Error(e).
C6_ErrorPropagates ==
    [][ \A st \in Stmts :
          ( /\ EvalStatementStep(st)
            /\ st.s \in {"LetStmt", "ExprStmt"}
            /\ st.expr \in CompoundExprs
            /\ SubErrors(st.expr, frames, env) # {} )
          => result' \in SubErrors(st.expr, frames, env)
      ]_vars

(***************************************************************************)
(* TRY / CATCH / FINALLY  (helpers/eval_control_flow.rs)                    *)
(***************************************************************************)

\* The bodies of the try expressions explored.
TryBodies ==
    { <<StmtExpr(LitExpr(Integer(1)))>>,
      <<StmtThrow(LitExpr(Integer(1)))>>,
      <<StmtExpr(IdentExpr("y"))>>,
      <<StmtExpr(InfixExpr("Divide", LitExpr(Integer(1)), LitExpr(Integer(0))))>>,
      <<StmtReturn(LitExpr(Integer(1)))>>,
      <<StmtBreak>>,
      <<StmtAssign("x", LitExpr(Integer(1))), StmtThrow(IdentExpr("x"))>> }
CatchIdents == {"", "x", "y"}
CatchBodies ==
    { <<StmtExpr(IdentExpr("y"))>>,
      <<StmtExpr(LitExpr(Integer(0)))>>,
      <<StmtThrow(LitExpr(Integer(0)))>>,
      <<StmtLet("x", IdentExpr("y"))>> }
FinallyBodies ==
    { <<StmtExpr(LitExpr(Integer(0)))>>,
      <<StmtReturn(LitExpr(Integer(0)))>>,
      <<StmtThrow(LitExpr(Integer(0)))>>,
      <<StmtBreak>>,
      <<StmtContinue>>,
      <<StmtExpr(IdentExpr("y"))>>,
      <<StmtAssign("x", InfixExpr("Plus", IdentExpr("x"), LitExpr(Integer(1))))>> }
Option(S) == {<<>>} \cup {<<b>> : b \in S}

\* A match that catches thrown values only.
caught_thrown_only(try_result) ==
    IF try_result.t = "ThrownValue" THEN <<try_result.in[1]>> ELSE <<>>

\* caught_exception_obj: the thrown inner value, or the Error itself.
caught_exception_obj(try_result) ==
    IF try_result.t = "ThrownValue" THEN <<try_result.in[1]>>
    ELSE IF try_result.t = "Error" THEN <<try_result>>
    ELSE <<>>

\* A finally that yields to the try/catch result unless it returns or loops.
FinallyOverridesUnlessThrown(finally_result) ==
    finally_result.t \in {"ReturnValue", "Break", "Continue"}

\* The match on finally_result: these values become final_result.
FinallyOverrides(finally_result) ==
    finally_result.t \in {"ReturnValue", "Break", "Continue", "ThrownValue", "Error"}

\* The value eval_try_catch_expr returns for final_result.
TryValue(final_result) ==
    IF final_result.t = "ThrownValue" THEN final_result
    ELSE IF final_result.t \in {"ReturnValue", "Break", "Continue", "Error"}
         THEN final_result
         ELSE returned(final_result)

\* eval_try_catch_expr up to the match on try_result: the try body is
\* evaluated in the current environment.
TryBlock(try_body, catch_ident, catch_body, finally_body) ==
    /\ tc.pc = "idle"
    /\ catch_body # <<>> \/ finally_body # <<>>
    /\ catch_body = <<>> => catch_ident = ""
    /\ LET r == eval_blockstmt(try_body, frames, env)
       IN /\ frames' = r.fs
          /\ tc' = [tc EXCEPT !.pc = "tried",
                              !.catch_ident = catch_ident,
                              !.catch_body = catch_body,
                              !.finally_body = finally_body,
                              !.try_result = r.val,
                              !.try0 = r.val,
                              !.exception = caught_exception_obj(r.val),
                              !.order = <<"try">>]
    /\ UNCHANGED <<nframes, env, stack, last, nops, blockVars, asyncVars, restVars>>

\* if let Some(exception) .. if let Some(e_name) .. if let Some(c_body): the
\* binder set in a frame whose parent is the current environment, the catch
\* body evaluated there, its value the new try_result, old_env restored.
CatchBlock ==
    /\ tc.pc = "tried"
    /\ IF tc.exception # <<>> /\ tc.catch_ident # "" /\ tc.catch_body # <<>>
       THEN /\ nframes < MaxFrames
            /\ LET new == nframes + 1
                   fs0 == [frames EXCEPT ![new] = new_with_outer(env)]
                   fs1 == EnvSet(fs0, new, tc.catch_ident, tc.exception[1])
                   r == eval_blockstmt(tc.catch_body[1], fs1, new)
               IN /\ frames' = r.fs
                  /\ nframes' = new
                  /\ tc' = [tc EXCEPT !.pc = "caught",
                                      !.try_result = r.val,
                                      !.bound = EnvGet(fs1, new, tc.catch_ident),
                                      !.order = Append(tc.order, "catch")]
       ELSE /\ tc' = [tc EXCEPT !.pc = "caught"]
            /\ UNCHANGED <<frames, nframes>>
    /\ UNCHANGED <<env, stack, last, nops, blockVars, asyncVars, restVars>>

\* if let Some(f_body) = finally_body: the finally body evaluated in the
\* current environment and final_result chosen.
FinallyBlock ==
    /\ tc.pc = "caught"
    /\ IF tc.finally_body # <<>>
       THEN LET r == eval_blockstmt(tc.finally_body[1], frames, env)
            IN /\ frames' = r.fs
               /\ tc' = [tc EXCEPT !.pc = "finished",
                                   !.finally_result = r.val,
                                   !.final_result = IF FinallyOverrides(r.val)
                                                    THEN r.val ELSE tc.try_result,
                                   !.order = Append(tc.order, "finally")]
       ELSE /\ tc' = [tc EXCEPT !.pc = "finished", !.final_result = tc.try_result]
            /\ UNCHANGED frames
    /\ UNCHANGED <<nframes, env, stack, last, nops, blockVars, asyncVars, restVars>>

\* The value of the try expression.
TryReturn ==
    /\ tc.pc = "finished"
    /\ tc' = [tc EXCEPT !.pc = "done", !.value = TryValue(tc.final_result)]
    /\ UNCHANGED <<envVars, blockVars, asyncVars, restVars>>

NextTry ==
    \/ \E tb \in TryBodies, ci \in CatchIdents,
          cb \in Option(CatchBodies), fb \in Option(FinallyBodies) :
          TryBlock(tb, ci, cb, fb)
    \/ CatchBlock
    \/ FinallyBlock
    \/ TryReturn

\* The evaluator reaches a try expression with x unbound or bound to 0.
InitTry ==
    /\ \E v \in {NoVal, Integer(0)} :
          frames = [f \in FrameIds |->
                      IF f = 1 THEN [EnvNew EXCEPT !.store["x"] = v] ELSE EnvNew]
    /\ nframes = 1
    /\ env = 1
    /\ stack = <<>>
    /\ last = [op |-> "init", name |-> "", bound |-> "none"]
    /\ nops = 0
    /\ BlockIdle
    /\ TryInit
    /\ AsyncInit
    /\ RestInit

SpecTry == InitTry /\ [][NextTry]_vars

(***************************************************************************)
(* Claims on try/catch/finally (checked under SpecTry)                     *)
(***************************************************************************)

TryPastCatch == tc.pc \in {"caught", "finished", "done"}
CatchRan == \E i \in 1..Len(tc.order) : tc.order[i] = "catch"

\* C7: for a try with a finally block, the bodies run in the order try,
\* (catch,) finally, each once; a finally result that is ReturnValue, Break,
\* Continue, ThrownValue or Error is the value of the try expression,
\* otherwise the try/catch result is; an uncaught ThrownValue is still the
\* value, as ThrownValue, after a finally that yields none of those.
C7_FinallyRunsOnceAndDecides ==
    (tc.pc = "done" /\ tc.finally_body # <<>>) =>
        /\ tc.order \in {<<"try", "finally">>, <<"try", "catch", "finally">>}
        /\ IF tc.finally_result.t \in ControlFlowTags
           THEN tc.value = tc.finally_result
           ELSE tc.value = tc.try_result
        /\ (tc.try0.t = "ThrownValue" /\ ~CatchRan
              /\ tc.finally_result.t \notin ControlFlowTags)
           => tc.value = tc.try0

\* A finally ran after an uncaught throw and after a caught one overrode it.
C7_Witness ==
    /\ tc.pc = "done"
    /\ tc.finally_body # <<>>
    /\ tc.try0.t = "ThrownValue"
    /\ ~CatchRan
    /\ tc.finally_result.t \notin ControlFlowTags
    /\ tc.value = tc.try0

\* C8 as amended: the catch body runs exactly when the try block's result is
\* ThrownValue or Error and both the catch binder and the catch body are
\* present; the binder then resolves, in the catch environment, to the thrown
\* inner value or to the Error value itself.
C8_CatchRunsOnThrownOrError ==
    TryPastCatch =>
        /\ CatchRan <=> ( /\ tc.try0.t \in {"ThrownValue", "Error"}
                          /\ tc.catch_ident # ""
                          /\ tc.catch_body # <<>> )
        /\ CatchRan => tc.bound = (IF tc.try0.t = "ThrownValue"
                                   THEN tc.try0.in[1] ELSE tc.try0)

\* A runtime error of the try block was caught and bound.
C8_Witness ==
    /\ TryPastCatch
    /\ tc.try0.t = "Error"
    /\ CatchRan
    /\ tc.bound = tc.try0

\* C8 as claimed: a try block whose result is Error is not caught; only a
\* ThrownValue result makes the catch body run and the binder bound.
C8_ErrorNotCaught ==
    TryPastCatch =>
        /\ CatchRan => tc.try0.t = "ThrownValue"
        /\ tc.try0.t = "Error" => tc.bound = NoVal

(***************************************************************************)
(* ASYNC CALLS AND FUTURES  (helpers/eval_functions.rs)                     *)
(*                                                                         *)
(* Evaluator 1 is the top-level one; every other id is the evaluator of a   *)
(* task spawned by eval_async_fn_call, and the Future wrapping task q is    *)
(* the handle q. The tasks run concurrently with their callers.            *)
(***************************************************************************)

\* Object::Future(Arc<Mutex<Option<..>>>): the handle h names the shared cell.
Future(h) == Obj("Future", h, "", <<>>)

WrongNumberOfArguments(min, max, got) ==
    Error("WrongNumberOfArguments", <<Integer(min), Integer(max), Integer(got)>>)
AlreadyAwaited == InvalidOperation("Cannot await a future that has already been awaited")
FuturePanicked == InvalidOperation("Future panicked")

\* The value the body of the async function run by task q returns: every
\* task of the programs explored returns a value of its own.
BodyValue(q) == Integer(q)
\* params.len() and args_expr.len() of the calls explored.
Arities == 0..1

\* A take that leaves the pending computation in the cell.
FutureTakeKeep(slot) == [f |-> slot, slot |-> slot]

\* future_arc.lock().unwrap().take(): what was in the cell, and the cell after.
FutureTake(slot) == [f |-> slot, slot |-> "None"]

\* A call site that never awaits.
NeverAwaits(in_async_context) == FALSE

\* if !self.in_async_context: the call site awaits the Future itself.
AutoAwaits(in_async_context) == ~in_async_context

\* The lowest evaluator id not in use, 0 when all are.
FreeProc ==
    IF \E q \in ProcIds : procs[q].pc = "unused"
    THEN CHOOSE q \in ProcIds :
            /\ procs[q].pc = "unused"
            /\ \A r \in ProcIds : procs[r].pc = "unused" => q <= r
    ELSE 0

\* eval_async_fn_call by evaluator p: the arity check, then a task spawned
\* with in_async_context = true whose body will return BodyValue(q), and a Future
\* holding the pending join of that task. The task's environment descends
\* from the function's captured environment, so it can name the handles its
\* caller can name.
eval_async_fn_call(p, nparams, nargs) ==
    /\ procs[p].pc = "running"
    /\ IF nargs < nparams
       THEN /\ procs' = [procs EXCEPT ![p].pc = "called", ![p].op = "call",
                                      ![p].fut = 0,
                                      ![p].result =
                                          WrongNumberOfArguments(nparams, nparams, nargs)]
            /\ UNCHANGED <<futures, held>>
       ELSE /\ FreeProc # 0
            /\ LET q == FreeProc
               IN /\ procs' = [procs EXCEPT
                                 ![q] = [pc |-> "running", in_async_context |-> TRUE,
                                         value |-> BodyValue(q), result |-> NoVal,
                                         fut |-> 0, op |-> "none"],
                                 ![p].pc = "called", ![p].op = "call",
                                 ![p].fut = q, ![p].result = Future(q)]
                  /\ futures' = [futures EXCEPT ![q] = "Some"]
                  /\ held' = [held EXCEPT ![q] = held[p]]
    /\ UNCHANGED awaits

\* The take of handle h by evaluator p and what follows it: with the pending
\* computation in hand p waits for the task, without it p's expression is
\* Error(InvalidOperation).
AwaitFuture(p, h, op) ==
    /\ Len(awaits) < MaxAwaits
    /\ LET tk == FutureTake(futures[h])
       IN /\ futures' = [futures EXCEPT ![h] = tk.slot]
          /\ IF tk.f = "Some"
             THEN /\ procs' = [procs EXCEPT ![p].pc = "joining", ![p].op = op,
                                            ![p].fut = h]
                  /\ awaits' = Append(awaits, [p |-> p, h |-> h, took |-> TRUE,
                                               got |-> NoVal])
             ELSE /\ procs' = [procs EXCEPT ![p].pc = "running", ![p].op = op,
                                            ![p].fut = h,
                                            ![p].result = AlreadyAwaited]
                  /\ awaits' = Append(awaits, [p |-> p, h |-> h, took |-> FALSE,
                                               got |-> AlreadyAwaited])

\* eval_call after eval_async_fn_call has returned future_obj: outside an
\* async context a Future is awaited on the spot, anything else and every
\* value in an async context is the value of the call.
EvalCallReturn(p) ==
    /\ procs[p].pc = "called"
    /\ LET future_obj == procs[p].result
       IN IF AutoAwaits(procs[p].in_async_context) /\ future_obj.t = "Future"
          THEN /\ AwaitFuture(p, future_obj.v, "call")
               /\ UNCHANGED held
          ELSE /\ procs' = [procs EXCEPT ![p].pc = "running"]
               /\ held' = [held EXCEPT ![p] =
                              IF future_obj.t = "Future"
                              THEN held[p] \cup {future_obj.v} ELSE held[p]]
               /\ UNCHANGED <<futures, awaits>>

\* Await(e) in an async function body, e a Future the evaluator can name.
eval_await(p, h) ==
    /\ procs[p].pc = "running"
    /\ procs[p].in_async_context
    /\ h \in held[p]
    /\ AwaitFuture(p, h, "await")
    /\ UNCHANGED held

\* match f.await: the joined task has ended; Ok(obj) => obj, and the
\* JoinError of a panicked task => Error(InvalidOperation("Future panicked")).
JoinComplete(p) ==
    /\ procs[p].pc = "joining"
    /\ procs[procs[p].fut].pc \in {"done", "panicked"}
    /\ procs' = [procs EXCEPT ![p].pc = "running",
                              ![p].result = IF procs[procs[p].fut].pc = "done"
                                            THEN procs[procs[p].fut].value
                                            ELSE FuturePanicked]
    /\ UNCHANGED <<futures, held, awaits>>

\* The spawned closure returns evaluator.returned(result).
TaskFinish(q) ==
    /\ q # 1
    /\ procs[q].pc = "running"
    /\ procs' = [procs EXCEPT ![q].pc = "done"]
    /\ UNCHANGED <<futures, held, awaits>>

\* The spawned closure panics; its JoinHandle yields a JoinError.
TaskPanic(q) ==
    /\ q # 1
    /\ procs[q].pc = "running"
    /\ procs' = [procs EXCEPT ![q].pc = "panicked"]
    /\ UNCHANGED <<futures, held, awaits>>

\* One step of one evaluator, at most MaxSteps of them in all.
AsyncStep(A) ==
    /\ nops < MaxSteps /\ A /\ nops' = nops + 1
    /\ UNCHANGED <<frames, nframes, env, stack, last, blockVars, tryVars, restVars>>

NextAsync ==
    \/ \E p \in ProcIds, np \in Arities, na \in Arities :
          AsyncStep(eval_async_fn_call(p, np, na))
    \/ \E p \in ProcIds : AsyncStep(EvalCallReturn(p))
    \/ \E p \in ProcIds, h \in ProcIds : AsyncStep(eval_await(p, h))
    \/ \E p \in ProcIds : AsyncStep(JoinComplete(p))
    \/ \E q \in ProcIds : AsyncStep(TaskFinish(q))
    \/ \E q \in ProcIds : AsyncStep(TaskPanic(q))

InitAsync == EnvInit /\ BlockIdle /\ TryInit /\ AsyncInit /\ RestInit

SpecAsync == InitAsync /\ [][NextAsync]_vars

(***************************************************************************)
(* Claims on futures and async calls (checked under SpecAsync)             *)
(***************************************************************************)

\* The takes of handle h that got the pending computation.
Takers(h) == {i \in 1..Len(awaits) : awaits[i].h = h /\ awaits[i].took}

\* C9: whatever the interleaving of the evaluators that share a Future, at
\* most one await takes its pending computation, and every other await of it
\* yields Error(InvalidOperation).
C9_FutureTakenAtMostOnce ==
    /\ \A h \in ProcIds : Cardinality(Takers(h)) <= 1
    /\ \A i \in 1..Len(awaits) :
          ~awaits[i].took =>
              /\ awaits[i].got.t = "Error"
              /\ awaits[i].got.k = "InvalidOperation"
              /\ Takers(awaits[i].h) # {}

\* Two evaluators awaited one Future: the first took it, the second got the
\* error as the value of its await.
C9_Witness ==
    \E i, j \in 1..Len(awaits) :
        /\ i < j
        /\ awaits[i].h = awaits[j].h
        /\ awaits[i].p # awaits[j].p
        /\ awaits[i].took
        /\ ~awaits[j].took
        /\ procs[awaits[j].p].result = AlreadyAwaited

\* Evaluator p leaves eval_call for a call that spawned a task.
CallReturns(p) ==
    /\ procs[p].op = "call"
    /\ procs[p].fut # 0
    /\ procs[p].pc \in {"called", "joining"}
    /\ procs'[p].pc = "running"

\* C10: a call of an async function by an evaluator with in_async_context =
\* false returns only once the spawned task has ended, with the body's value
\* (the error of the join when the task panicked) and never with the Future;
\* with in_async_context = true it returns the Future of that call, whose
\* pending computation is still in the handle.
C10_AutoAwaitOutsideAsync ==
    [][ \A p \in ProcIds :
          CallReturns(p) =>
              LET q == procs[p].fut
              IN IF ~procs[p].in_async_context
                 THEN /\ procs[q].pc \in {"done", "panicked"}
                      /\ procs[q].pc = "done" => procs'[p].result = procs[q].value
                      /\ procs'[p].result.t # "Future"
                 ELSE /\ procs'[p].result = Future(q)
                      /\ futures'[q] = "Some"
      ]_vars

\* The top-level call has returned the body's value of a finished task, and a
\* call inside a task has returned an untaken Future.
C10_Witness ==
    /\ \E q \in ProcIds :
          /\ procs[1].op = "call" /\ procs[1].pc = "running" /\ procs[1].fut = q
          /\ procs[q].pc = "done"
          /\ procs[1].result = procs[q].value
    /\ \E p, q \in ProcIds :
          /\ procs[p].in_async_context
          /\ procs[p].op = "call" /\ procs[p].pc = "running" /\ procs[p].fut = q
          /\ procs[p].result = Future(q)
          /\ futures[q] = "Some"

(***************************************************************************)
(* MODULES AND IMPORTS  (interpreter/module_registry.rs, eval_misc.rs)      *)
(***************************************************************************)

\* Object::Module { name, exports }.
ModuleObj(name, exports) == Obj("Module", 0, name, <<exports["x"], exports["y"]>>)

\* The messages of the InvalidOperation errors, their formatted parts as fields.
FailedToLoad(path) ==
    Error("InvalidOperation", <<String("Failed to load module"), String(path)>>)
FailedToLex == Error("InvalidOperation", <<String("Failed to lex module")>>)
FailedToParse == Error("InvalidOperation", <<String("Failed to parse module")>>)
NoExport(module_name, name) ==
    Error("InvalidOperation", <<String("Module has no export"),
                                 String(module_name), String(name)>>)

\* load_stdlib: the preloaded modules.
stdlib ==
    [p \in StdPaths |->
        Module(p, [n \in ExportNames |-> IF n = "x" THEN Builtin("clamp") ELSE NoVal])]

\* The module sources explored.
ModulePrograms ==
    { <<StmtLet("x", LitExpr(Integer(0))), StmtLet("y", LitExpr(Integer(1)))>>,
      <<StmtLet("x", IdentExpr("y"))>>,
      <<StmtExpr(IdentExpr("y")), StmtLet("x", LitExpr(Integer(1)))>> }
FileContents ==
    {NoFile, File("unlexable", <<>>), File("unparsable", <<>>)}
    \cup {File("program", prog) : prog \in ModulePrograms}
ImportItemsSet ==
    { Items("All", <<>>), Items("Specific", <<"x">>), Items("Specific", <<"x", "y">>),
      Items("Single", <<"x">>), Items("Single", <<"y">>) }

\* A lookup that never finds a loaded module.
CacheMiss(reg, path) == NoModule

\* registry.loaded_modules.get(&module_path).cloned()
CacheLookup(reg, path) == reg.loaded_modules[path]

\* extract_exports: every statement is evaluated by a fresh evaluator, the
\* value of the statement is dropped, and after a let the name's binding is
\* exported. everr records that some statement's value was an Error. The
\* statement is evaluated once; r is its outcome.
RECURSIVE extract_exports(_, _, _, _)
extract_exports(program, fs, exports, everr) ==
    IF program = <<>> THEN [exports |-> exports, everr |-> everr]
    ELSE CHOOSE out \in
           { LET stmt == Head(program)
                 obj == IF stmt.s = "LetStmt" THEN EnvGet(r.fs, 1, stmt.name) ELSE NoVal
             IN extract_exports(Tail(program), r.fs,
                                IF obj # NoVal /\ stmt.name \in ExportNames
                                THEN [exports EXCEPT ![stmt.name] = obj] ELSE exports,
                                everr \/ r.val.t = "Error")
             : r \in {EvalStatement(Head(program), fs, 1)} } : TRUE

\* parse_and_extract_module on the text read from the file.
parse_and_extract_module(source, path) ==
    IF source.kind = "unlexable" THEN [ret |-> Err(FailedToLex), everr |-> FALSE]
    ELSE IF source.kind = "unparsable" THEN [ret |-> Err(FailedToParse), everr |-> FALSE]
    ELSE LET e == extract_exports(source.prog, [f \in FrameIds |-> EnvNew],
                                  NoExports, FALSE)
         IN [ret |-> Ok(Module(path, e.exports)), everr |-> e.everr]

\* eval_import calls load_module: the loaded_modules lookup, then the stdlib
\* lookup, else load_user_module is entered.
LoadModule(c, path, items) ==
    /\ imports[c].pc = "idle"
    /\ LET cached == CacheLookup(registry, path)
           start == [imports[c] EXCEPT !.path = path, !.items = items,
                                       !.after = mlog.succeeded[path]]
       IN imports' = [imports EXCEPT ![c] =
             IF cached # NoModule
             THEN [start EXCEPT !.pc = "loaded", !.ret = Ok(cached), !.hit = TRUE]
             ELSE IF path \in StdPaths
                  THEN [start EXCEPT !.pc = "loaded", !.ret = Ok(stdlib[path])]
                  ELSE [start EXCEPT !.pc = "reading"]]
    /\ UNCHANGED <<registry, fsys, mlog, frames>>

\* load_user_module: fs::read_to_string(&file_path).
ReadFile(c) ==
    /\ imports[c].pc = "reading"
    /\ LET path == imports[c].path
       IN /\ mlog' = [mlog EXCEPT !.nreads[path] = @ + 1]
          /\ imports' = [imports EXCEPT ![c] =
                IF fsys[path].kind = "missing"
                THEN [@ EXCEPT !.pc = "loaded", !.ret = Err(FailedToLoad(path))]
                ELSE [@ EXCEPT !.pc = "parsing", !.source = fsys[path]]]
    /\ UNCHANGED <<registry, fsys, frames>>

\* load_user_module after the read: the module is built and, when that
\* succeeded, inserted in loaded_modules.
ParseAndInsert(c) ==
    /\ imports[c].pc = "parsing"
    /\ LET path == imports[c].path
           r == parse_and_extract_module(imports[c].source, path)
       IN /\ imports' = [imports EXCEPT ![c].pc = "loaded", ![c].ret = r.ret,
                                        ![c].everr = r.everr]
          /\ IF r.ret.ok
             THEN /\ registry' = [registry EXCEPT !.loaded_modules[path] = r.ret.module]
                  /\ mlog' = [mlog EXCEPT !.succeeded[path] = TRUE]
             ELSE UNCHANGED <<registry, mlog>>
    /\ UNCHANGED <<fsys, frames>>

\* The first name of names that module does not export, "" when there is none.
RECURSIVE FirstMissing(_, _)
FirstMissing(module, names) ==
    IF names = <<>> THEN ""
    ELSE IF module.exports[Head(names)] = NoVal THEN Head(names)
    ELSE FirstMissing(module, Tail(names))

\* eval_import after load_module: the frames and the value of the statement.
eval_import(module_result, path, items, fs, f) ==
    IF ~module_result.ok THEN [val |-> module_result.err, fs |-> fs]
    ELSE LET module == module_result.module
             simple_name == path
         IN CASE items.kind = "All" ->
                   [val |-> Null,
                    fs |-> EnvSet(fs, f, simple_name, ModuleObj(path, module.exports))]
              [] items.kind = "Specific" ->
                   IF FirstMissing(module, items.names) # ""
                   THEN [val |-> NoExport(module.name, FirstMissing(module, items.names)),
                         fs |-> fs]
                   ELSE [val |-> Null,
                         fs |-> EnvSet(fs, f, simple_name,
                                       ModuleObj(path,
                                           [n \in ExportNames |->
                                               IF \E i \in 1..Len(items.names) :
                                                     items.names[i] = n
                                               THEN module.exports[n] ELSE NoVal]))]
              [] items.kind = "Single" ->
                   IF module.exports[items.names[1]] = NoVal
                   THEN [val |-> NoExport(module.name, items.names[1]), fs |-> fs]
                   ELSE [val |-> Null,
                         fs |-> EnvSet(fs, f, items.names[1],
                                       module.exports[items.names[1]])]

\* The import statement completes at the import site.
ImportBind(c) ==
    /\ imports[c].pc = "loaded"
    /\ LET r == eval_import(imports[c].ret, imports[c].path, imports[c].items,
                            frames, env)
       IN /\ frames' = r.fs
          /\ imports' = [imports EXCEPT ![c].pc = "done", ![c].value = r.val]
    /\ UNCHANGED <<registry, fsys, mlog>>

\* The file of a user module is created, rewritten or deleted.
WriteFile(path, file) ==
    /\ mlog.nwrites < MaxWrites
    /\ fsys[path] # file
    /\ fsys' = [fsys EXCEPT ![path] = file]
    /\ mlog' = [mlog EXCEPT !.nwrites = @ + 1]
    /\ UNCHANGED <<registry, imports, frames>>

\* One step of the module part, at most MaxModSteps of them.
ModuleStep(A) ==
    /\ nops < MaxModSteps /\ A /\ nops' = nops + 1
    /\ UNCHANGED <<nframes, env, stack, last, blockVars, tryVars, asyncVars, calc, parse, otherVars>>

NextModule ==
    \/ \E c \in SiteIds, path \in ModPaths, items \in ImportItemsSet :
          ModuleStep(LoadModule(c, path, items))
    \/ \E c \in SiteIds : ModuleStep(ReadFile(c))
    \/ \E c \in SiteIds : ModuleStep(ParseAndInsert(c))
    \/ \E c \in SiteIds : ModuleStep(ImportBind(c))
    \/ \E path \in UserPaths, file \in FileContents : ModuleStep(WriteFile(path, file))

\* A fresh registry and evaluator; the user module's file holds anything.
InitModule ==
    /\ EnvInit /\ BlockIdle /\ TryInit /\ AsyncInit /\ ModuleInit /\ PureIdle
    /\ \E file \in FileContents :
          fsys = [p \in ModPaths |-> IF p \in UserPaths THEN file ELSE NoFile]

SpecModule == InitModule /\ [][NextModule]_vars

(***************************************************************************)
(* Claims on modules and imports (checked under SpecModule)                *)
(***************************************************************************)

\* C11: once a load_module of a user module path has succeeded, a later
\* load_module of that path on the same registry returns the module held in
\* loaded_modules (named after the path) at once: the file is not read, and
\* nothing is lexed, parsed, evaluated or inserted for that call.
C11_LoadedModuleIsCached ==
    [][ \A c \in SiteIds, path \in UserPaths :
          ( /\ imports[c].pc = "idle"
            /\ imports'[c].pc # "idle"
            /\ imports'[c].path = path
            /\ mlog.succeeded[path] )
          => /\ imports'[c].pc = "loaded"
             /\ imports'[c].ret = Ok(registry.loaded_modules[path])
             /\ registry.loaded_modules[path].name = path
             /\ mlog'.nreads = mlog.nreads
             /\ registry' = registry
      ]_vars

\* A module was loaded with one read of its file, the file was then deleted,
\* and a later import of the path got the module from the cache.
C11_Witness ==
    \E c \in SiteIds :
        /\ imports[c].after
        /\ imports[c].hit
        /\ imports[c].pc \in {"loaded", "done"}
        /\ imports[c].path \in UserPaths
        /\ imports[c].ret.ok
        /\ fsys[imports[c].path] = NoFile
        /\ mlog.nreads[imports[c].path] = 1

\* C12 as claimed: when a top-level statement of a user module evaluates to
\* Error, load_module returns Err(InvalidOperation) and the import statement
\* evaluates to that Error.
C12_ModuleEvalErrorSurfaces ==
    \A c \in SiteIds :
        imports[c].everr =>
            /\ imports[c].pc \in {"loaded", "done"} =>
                  /\ ~imports[c].ret.ok
                  /\ imports[c].ret.err.k = "InvalidOperation"
            /\ imports[c].pc = "done" => imports[c].value = imports[c].ret.err

\* C13 as claimed: an import of Specific(names) from a module that exports
\* every one of them leaves each name resolving, in the importing
\* environment, to the exported value; with a name that is not exported the
\* statement evaluates to Error(InvalidOperation("Module X has no export
\* 'name'")).
C13_SpecificBindsEachName ==
    [][ \A c \in SiteIds :
          ( /\ imports[c].pc = "loaded"
            /\ imports'[c].pc = "done"
            /\ imports[c].items.kind = "Specific"
            /\ imports[c].ret.ok )
          => LET module == imports[c].ret.module
                 names == imports[c].items.names
             IN IF FirstMissing(module, names) = ""
                THEN \A i \in 1..Len(names) :
                        EnvGet(frames', env, names[i]) = module.exports[names[i]]
                ELSE imports'[c].value =
                        NoExport(module.name, FirstMissing(module, names))
      ]_vars

(***************************************************************************)
(* ARRAYS AND HASHES  (interpreter/helpers/data_structures.rs,             *)
(* interpreter/builtins/methods.rs, interpreter/builtins/impls/hash.rs,    *)
(* interpreter/builtins/impls/shared.rs)                                   *)
(***************************************************************************)

\* Bounds of this part: operations per behaviour, elements of an array
\* literal, pairs of a hash literal.
MaxDataOps == 3
MaxArrayLen == 2
MaxPairs == 2

\* RuntimeError::InvalidArguments(msg), the Err of a builtin method.
InvalidArguments(msg) == Error("InvalidArguments", <<String(msg)>>)

\* An out-of-range store that grows the array instead of failing.
array_store_growing(arr, idx_num, value) ==
    IF idx_num < 0 \/ idx_num >= Len(arr) THEN Array(Append(arr, value))
    ELSE Array([arr EXCEPT ![idx_num + 1] = value])

\* eval_index_assign, the Ok(idx_num) arm on an array: the two range tests,
\* then arr[idx] = value.
array_store(arr, idx_num, value) ==
    IF idx_num < 0 THEN IndexOutOfBounds(idx_num, Len(arr))
    ELSE IF idx_num >= Len(arr) THEN IndexOutOfBounds(idx_num, Len(arr))
    ELSE Array([arr EXCEPT ![idx_num + 1] = value])

\* eval_index_assign with an identifier target, after index and value are
\* evaluated: the value returned and the environment left behind.
eval_index_assign(var_name, index, value, fs, f) ==
    LET current_value == EnvGet(fs, f, var_name)
    IN IF current_value = NoVal
       THEN [val |-> UndefinedVariable(var_name), fs |-> fs]
       ELSE IF current_value.t = "Array"
       THEN LET n == obj_to_int(index)
            IN IF n.t # "Integer" THEN [val |-> n, fs |-> fs]
               ELSE LET updated_value == array_store(current_value.in, n.v, value)
                    IN IF updated_value.t = "Error"
                       THEN [val |-> updated_value, fs |-> fs]
                       ELSE [val |-> value,
                             fs |-> EnvSet(fs, f, var_name, updated_value)]
       ELSE IF current_value.t = "Hash"
       THEN LET key == obj_to_hash(index)
            IN IF key.t = "Error" THEN [val |-> key, fs |-> fs]
               ELSE [val |-> value,
                     fs |-> EnvSet(fs, f, var_name,
                                   Hash(hash_insert(current_value.in, key, value)))]
       ELSE [val |-> InvalidOperation("Cannot index into " \o type_name(current_value)),
             fs |-> fs]

\* A key test that lets every value through.
hashable_any(key) == TRUE

\* The key test of eval_hash, bset_fn and bremove_fn:
\* Object::Integer(_) | Object::Boolean(_) | Object::String(_).
hashable_literal_key(key) == key.t \in {"Integer", "Boolean", "String"}

\* eval_hash after the keys and values are evaluated, pair by pair.
RECURSIVE eval_hash_from(_, _)
eval_hash_from(hs, hashmap) ==
    IF hs = <<>> THEN Hash(hashmap)
    ELSE LET key == hs[1][1]
             val == hs[1][2]
         IN IF key.t # "Error" /\ hashable_literal_key(key)
            THEN eval_hash_from(Tail(hs), hash_insert(hashmap, key, val))
            ELSE IF key.t = "Error" THEN key
            ELSE NotHashable(type_name(key))
eval_hash(hs) == eval_hash_from(hs, <<>>)

\* bset_fn on (hash, key, value).
bset_fn(hash, key, value) ==
    IF hashable_literal_key(key) THEN Hash(hash_insert(hash.in, key, value))
    ELSE InvalidArguments(type_name(key) \o " is not hashable")

\* bremove_fn on (hash, key).
bremove_fn(hash, key) ==
    IF hashable_literal_key(key) THEN Hash(hash_without(hash.in, key))
    ELSE InvalidArguments("remove() key must be integer, boolean, or string, got "
                          \o type_name(key))

\* BuiltinMethods::call_method on a hash receiver, methods set and remove.
call_method(object, method_name, args) ==
    CASE object.t = "Hash" /\ method_name = "set" /\ Len(args) = 2 ->
            bset_fn(object, args[1], args[2])
      [] object.t = "Hash" /\ method_name = "remove" /\ Len(args) = 1 ->
            bremove_fn(object, args[1])
      [] OTHER -> InvalidOperation(type_name(object) \o " has no method")

\* The values stored, and the values used as index or key.
DataVals == {Integer(0), Integer(1)}
DataKeys ==
    {Integer(i) : i \in -1..MaxArrayLen}
    \cup {BigInteger(I64_MAX + 1), Boolean(TRUE), String("a"), Null, Array(<<>>)}
LiteralKeys == {Integer(0), BigInteger(I64_MAX + 1), String("a"), Null}
ArrayLits == UNION {[1..n -> DataVals] : n \in 0..MaxArrayLen}
HashLits == UNION {[1..n -> LiteralKeys \X {Integer(0)}] : n \in 0..MaxPairs}

\* let name = [e1, .., en];
LetArray(name, elems) ==
    /\ frames' = EnvSet(frames, env, name, eval_array(elems))
    /\ result' = eval_array(elems)
    /\ last' = [op |-> "let_array", name |-> name, bound |-> "none"]

\* let name = {k1: v1, .., kn: vn};
LetHash(name, hs) ==
    /\ frames' = EnvSet(frames, env, name, eval_hash(hs))
    /\ result' = eval_hash(hs)
    /\ last' = [op |-> "let_hash", name |-> name, bound |-> "none"]

\* name[index] = value;
IndexAssign(name, index, value) ==
    /\ LET r == eval_index_assign(name, index, value, frames, env)
       IN frames' = r.fs /\ result' = r.val
    /\ last' = [op |-> "index_assign", name |-> name, bound |-> "none"]

\* An index read that takes the entry out of the hash the variable holds.
eval_index_removing(name, index, fs, f) ==
    LET target == eval_ident(fs, f, name)
    IN [val |-> eval_index(target, index),
        fs |-> IF target.t = "Hash" /\ obj_to_hash(index).t # "Error"
               THEN EnvSet(fs, f, name, Hash(hash_without(target.in, obj_to_hash(index))))
               ELSE fs]

\* eval_index with an identifier target: eval_expr hands back a clone of the
\* value bound to the name, the entry is removed from that clone, and the
\* environment is not written.
eval_index_ident(name, index, fs, f) ==
    [val |-> eval_index(eval_ident(fs, f, name), index), fs |-> fs]

\* name[index];
IndexRead(name, index) ==
    /\ LET r == eval_index_ident(name, index, frames, env)
       IN frames' = r.fs /\ result' = r.val
    /\ last' = [op |-> "index", name |-> name, bound |-> "none"]

\* let dst = src.set(key, value); and let dst = src.remove(key); with src a
\* hash (eval_method_call, the arm of the builtin methods).
LetMethod(dst, src, method_name, args) ==
    /\ EnvGet(frames, env, src).t = "Hash"
    /\ LET r == call_method(EnvGet(frames, env, src), method_name, args)
       IN frames' = EnvSet(frames, env, dst, r) /\ result' = r
    /\ last' = [op |-> method_name, name |-> dst, bound |-> "none"]

\* One statement of a program over x and y.
DataStep(A) ==
    /\ nops < MaxDataOps /\ A /\ nops' = nops + 1
    /\ UNCHANGED <<nframes, env, stack, nstmts, pcB, tryVars, asyncVars, restVars>>

NextData ==
    \/ \E n \in VarNames, es \in ArrayLits : DataStep(LetArray(n, es))
    \/ \E hs \in HashLits : DataStep(LetHash("x", hs))
    \/ \E n \in VarNames, i \in DataKeys, v \in DataVals : DataStep(IndexAssign(n, i, v))
    \/ \E n \in VarNames, i \in DataKeys : DataStep(IndexRead(n, i))
    \/ \E k \in DataKeys, v \in DataVals : DataStep(LetMethod("x", "x", "set", <<k, v>>))
    \/ \E k \in DataKeys : DataStep(LetMethod("x", "x", "remove", <<k>>))

\* The evaluator after construction.
InitData == EnvInit /\ BlockIdle /\ TryInit /\ AsyncInit /\ RestInit

SpecData == InitData /\ [][NextData]_vars

\* The integer indexes, of either representation, that lie outside an array.
OutOfRange(index, arr) ==
    /\ index.t \in {"Integer", "BigInteger"}
    /\ index.v < 0 \/ index.v >= Len(arr.in)

C16_HashReadKeepsHash ==
    [][ \A n \in VarNames, k \in DataKeys :
          (IndexRead(n, k) /\ EnvGet(frames, env, n).t = "Hash")
          => /\ frames' = frames
             /\ eval_index_ident(n, k, frames', env').val = result'
             /\ obj_to_hash(k).t # "Error"
                  => result' = IF \E i \in 1..Len(EnvGet(frames, env, n).in) :
                                    EnvGet(frames, env, n).in[i].in[1] = k
                               THEN (CHOOSE e \in {EnvGet(frames, env, n).in[i] :
                                                    i \in 1..Len(EnvGet(frames, env, n).in)} :
                                       e.in[1] = k).in[2]
                               ELSE Null
      ]_vars

\* A key that is present has just been read from a hash, which still holds it.
C16_Witness ==
    /\ last.op = "index"
    /\ EnvGet(frames, env, last.name).t = "Hash"
    /\ \E i \in 1..Len(EnvGet(frames, env, last.name).in) :
          EnvGet(frames, env, last.name).in[i].in[2] = result

\* The key types the hashes may hold, and the hashes a state holds.
HashableTypes == {"Integer", "BigInteger", "Boolean", "String"}
HashesHeld ==
    {o \in {EnvGet(frames, env, n) : n \in VarNames} \cup {result} : o.t = "Hash"}

\* C17: every key of every hash is an Integer, BigInteger, Boolean or String,
\* and a hash literal, an index assignment or a `set` with a key of another
\* type yields an error and adds no entry.
C17_HashKeysHashable ==
    /\ [](\A h \in HashesHeld : \A i \in 1..Len(h.in) : h.in[i].in[1].t \in HashableTypes)
    /\ [][ \A k \in DataKeys, v \in DataVals :
             k.t \notin HashableTypes
             => /\ \A n \in VarNames :
                     (IndexAssign(n, k, v) /\ EnvGet(frames, env, n).t = "Hash")
                     => result'.t = "Error" /\ frames' = frames
                /\ LetMethod("x", "x", "set", <<k, v>>)
                     => result'.t = "Error" /\ EnvGet(frames', env', "x") = result'
                /\ \A hs \in HashLits :
                     (LetHash("x", hs) /\ \E i \in 1..Len(hs) : hs[i][1] = k)
                     => result'.t = "Error"
         ]_vars

\* An index assignment with a key that is not hashable has just failed on a
\* hash that holds entries.
C17_Witness ==
    /\ last.op = "index_assign"
    /\ result.t = "Error" /\ result.k = "NotHashable"
    /\ EnvGet(frames, env, last.name).t = "Hash"
    /\ EnvGet(frames, env, last.name).in # <<>>

(***************************************************************************)
(* OPERATORS ON EVALUATED OPERANDS  (helpers/eval_expressions.rs,          *)
(* helpers/obj_operations.rs, helpers/type_converters.rs, obj.rs)          *)
(***************************************************************************)

\* RuntimeError::ModuloByZero.
ModuloByZero == Error("ModuloByZero", <<>>)

\* The integers at and around the two ends of i64, in both representations.
CalcInts ==
    {Integer(I64_MIN), Integer(I64_MIN + 1), Integer(-2), Integer(-1), Integer(0),
     Integer(1), Integer(2), Integer(I64_MAX - 1), Integer(I64_MAX),
     BigInteger(I64_MAX + 1), BigInteger(I64_MAX + 2), BigInteger(I64_MIN - 1)}

\* Values built from booleans, strings, null, arrays, hashes and structs.
CalcOthers ==
    {Boolean(TRUE), Boolean(FALSE), String("a"), Null,
     Array(<<>>), Array(<<Integer(0), String("a")>>), Array(<<Struct(1)>>),
     Hash(<<>>), Hash(<<Entry(String("a"), Integer(0))>>),
     Hash(<<Entry(Integer(0), Array(<<Null>>))>>),
     Struct(1), Struct(2)}

CalcVals == CalcInts \cup CalcOthers
CalcInfixOps == {"Plus", "Minus", "Multiply", "Divide", "Modulo", "Equal", "NotEqual"}
CalcPrefixOps == {"PrefixMinus", "PrefixPlus"}

\* eval_infix once both operands are evaluated.
EvalInfix ==
    /\ calc.pc = "ready" /\ calc.op \in CalcInfixOps
    /\ calc' = [calc EXCEPT !.r = eval_infix(calc.op, calc.a, calc.b), !.pc = "done"]

\* eval_prefix once the operand is evaluated.
EvalPrefix ==
    /\ calc.pc = "ready" /\ calc.op \in CalcPrefixOps
    /\ calc' = [calc EXCEPT !.r = eval_prefix(calc.op, calc.a), !.pc = "done"]

CalcStep(A) ==
    /\ A
    /\ UNCHANGED <<envVars, blockVars, tryVars, asyncVars, moduleVars, parse, otherVars>>

NextCalc == CalcStep(EvalInfix) \/ CalcStep(EvalPrefix)

\* The evaluator about to apply an operator to operands it has evaluated.
InitCalc ==
    /\ EnvInit /\ BlockIdle /\ TryInit /\ AsyncInit
    /\ ModuleInit /\ fsys = [p \in ModPaths |-> NoFile] /\ ParseIdle /\ OtherIdle
    /\ \/ \E op \in CalcInfixOps, a \in CalcVals, b \in CalcVals :
             calc = [op |-> op, a |-> a, b |-> b, r |-> Null, pc |-> "ready"]
       \/ \E op \in CalcPrefixOps, a \in CalcVals :
             calc = [op |-> op, a |-> a, b |-> Null, r |-> Null, pc |-> "ready"]

SpecCalc == InitCalc /\ [][NextCalc]_vars

(***************************************************************************)
(* Claims on the operators (checked under SpecCalc)                        *)
(***************************************************************************)

\* C18 as claimed: for a value v built from integers, booleans, strings, null,
\* arrays, hashes and struct instances, `v == v` is true and `v != v` is
\* false; two struct instances of one type with equal fields are such a pair.
C18_EqualIsStructural ==
    ( /\ calc.pc = "done"
      /\ calc.op \in {"Equal", "NotEqual"}
      /\ calc.a = calc.b )
    => calc.r = Boolean(calc.op = "Equal")

\* What does hold: the same, for values that hold no struct instance.
RECURSIVE HoldsStruct(_)
HoldsStruct(o) ==
    \/ o.t = "Struct"
    \/ \E i \in 1..Len(o.in) : HoldsStruct(o.in[i])
C18_EqualIsStructuralWithoutStructs ==
    ( /\ calc.pc = "done"
      /\ calc.op \in {"Equal", "NotEqual"}
      /\ calc.a = calc.b
      /\ ~HoldsStruct(calc.a) )
    => calc.r = Boolean(calc.op = "Equal")

\* The representation the claims ask for: Integer when n fits a signed
\* integer of I64Bits bits, BigInteger otherwise.
FitsI64(n) == -(2 ^ (I64Bits - 1)) <= n /\ n < 2 ^ (I64Bits - 1)
Normalized(n) == IF FitsI64(n) THEN Integer(n) ELSE BigInteger(n)
IsInt(o) == o.t \in {"Integer", "BigInteger"}

\* C19: every result of + - * / % on integer operands of either
\* representation, and of unary minus, is an Integer iff it fits i64 and a
\* BigInteger otherwise; i64::MAX + 1 and -(i64::MIN) are BigInteger(2^63)
\* and BigInteger(2^63) - 1 is Integer(i64::MAX).
C19_IntegerIffFitsI64 ==
    calc.pc = "done"
    => /\ ( /\ calc.op \in {"Plus", "Minus", "Multiply", "Divide", "Modulo"}
            /\ IsInt(calc.a) /\ IsInt(calc.b)
            /\ ~(calc.op \in {"Divide", "Modulo"} /\ calc.b.v = 0) )
          => calc.r = Normalized(IF calc.op = "Plus" THEN calc.a.v + calc.b.v
                                 ELSE NumericOp(calc.op, calc.a.v, calc.b.v))
       /\ (calc.op = "PrefixMinus" /\ IsInt(calc.a)) => calc.r = Normalized(-calc.a.v)
       /\ (calc.op = "Plus" /\ calc.a = Integer(I64_MAX) /\ calc.b = Integer(1))
          => calc.r = BigInteger(I64_MAX + 1)
       /\ (calc.op = "PrefixMinus" /\ calc.a = Integer(I64_MIN))
          => calc.r = BigInteger(I64_MAX + 1)
       /\ (calc.op = "Minus" /\ calc.a = BigInteger(I64_MAX + 1) /\ calc.b = Integer(1))
          => calc.r = Integer(I64_MAX)

\* i64::MAX + 1 has been evaluated and is a BigInteger.
C19_Witness ==
    /\ calc.pc = "done" /\ calc.op = "Plus"
    /\ calc.a = Integer(I64_MAX) /\ calc.b = Integer(1)
    /\ calc.r.t = "BigInteger"

\* C20 as claimed: for an integer x, `x / 0` yields Error(DivisionByZero) and
\* `x % 0` yields Error(ModuloByZero), never a number or another error kind.
C20_ZeroRightOperand ==
    ( /\ calc.pc = "done"
      /\ calc.op \in {"Divide", "Modulo"}
      /\ IsInt(calc.a) /\ calc.b = Integer(0) )
    => calc.r = IF calc.op = "Divide" THEN DivisionByZero ELSE ModuloByZero

\* What does hold: both operations yield Error(DivisionByZero).
C20_ZeroRightOperandIsDivisionByZero ==
    ( /\ calc.pc = "done"
      /\ calc.op \in {"Divide", "Modulo"}
      /\ IsInt(calc.a) /\ calc.b = Integer(0) )
    => calc.r = DivisionByZero

(***************************************************************************)
(* PARSER: EXPRESSIONS  (parser/parser.rs, ast/ast.rs)                     *)
(***************************************************************************)

\* Bound of this part: tokens after the leading prefix operator.
MaxTokens == 5

\* ast::Expr variants made by the parser only.
CallExpr(function, arguments) == Ex("Call", "", "", Null, <<function>> \o arguments)
MethodCallExpr(object, method, arguments) ==
    Ex("MethodCall", "", method, Null, <<object>> \o arguments)
FieldAccessExpr(object, field) == Ex("FieldAccess", "", field, Null, <<object>>)
NoExpr == Ex("None", "", "", Null, <<>>)

\* enum Precedence, in its declared (derived Ord) order.
Precedence ==
    [PLowest |-> 0, POr |-> 1, PAnd |-> 2, PEquals |-> 3, PLessGreater |-> 4,
     PSum |-> 5, PProduct |-> 6, PPrefix |-> 7, PCall |-> 8, PIndex |-> 9]

\* infix_op: the precedence of a token and the infix operator it denotes.
infix_op(t) ==
    CASE t = "Plus" -> [prec |-> Precedence.PSum, op |-> <<"Plus">>]
      [] t = "Minus" -> [prec |-> Precedence.PSum, op |-> <<"Minus">>]
      [] t = "Multiply" -> [prec |-> Precedence.PProduct, op |-> <<"Multiply">>]
      [] t = "LParen" -> [prec |-> Precedence.PCall, op |-> <<>>]
      [] t = "LBracket" -> [prec |-> Precedence.PIndex, op |-> <<>>]
      [] t = "Dot" -> [prec |-> Precedence.PCall, op |-> <<>>]
      [] OTHER -> [prec |-> Precedence.PLowest, op |-> <<>>]

\* IResult<Tokens, Expr>: Ok((rest, expr)) and Err(Err::Error(..)).
POk(rest, expr) == [ok |-> TRUE, rest |-> rest, expr |-> expr]
PErr(input) == [ok |-> FALSE, rest |-> input, expr |-> NoExpr]

\* A tag parser: the token at the head of the input is t.
tag(input, t) == input # <<>> /\ input[1] = t

\* The token of a prefix operator, and the operator.
prefix_of(t) ==
    CASE t = "Plus" -> "PrefixPlus"
      [] t = "Minus" -> "PrefixMinus"
      [] t = "Not" -> "Not"

RECURSIVE parse_atom_expr(_)
RECURSIVE parse_prefix_expr(_)
RECURSIVE parse_pratt_expr(_, _)
RECURSIVE go_parse_pratt_expr(_, _, _)
RECURSIVE parse_infix_expr(_, _)
RECURSIVE parse_delimited_exprs(_, _, _)
RECURSIVE parse_call_expr(_, _)
RECURSIVE parse_index_expr(_, _)
RECURSIVE parse_method_call_expr(_, _)

\* parse_expr.
parse_expr(input) == parse_pratt_expr(input, Precedence.PLowest)

\* delimited(open, alt((parse_exprs, empty_boxed_vec)), close): the
\* expressions are in expr.args. The inputs hold no comma, so parse_exprs
\* yields one expression.
parse_delimited_exprs(input, open, close) ==
    IF ~tag(input, open) THEN PErr(input)
    ELSE LET first == parse_expr(Tail(input))
             exprs == IF first.ok THEN <<first.expr>> ELSE <<>>
             i1 == IF first.ok THEN first.rest ELSE Tail(input)
         IN IF tag(i1, close) THEN POk(Tail(i1), ArrayExpr(exprs)) ELSE PErr(input)

\* parse_prefix_expr: the operator, then parse_atom_expr for the operand.
parse_prefix_expr(input) ==
    IF ~(tag(input, "Plus") \/ tag(input, "Minus") \/ tag(input, "Not")) THEN PErr(input)
    ELSE LET r == parse_atom_expr(Tail(input))
         IN IF r.ok THEN POk(r.rest, PrefixExpr(prefix_of(input[1]), r.expr)) ELSE PErr(input)

\* parse_atom_expr: the alternatives in order (literals, this, struct
\* literals, hashes, if and fn start with tokens the inputs do not hold).
parse_atom_expr(input) ==
    IF tag(input, "Ident") THEN POk(Tail(input), IdentExpr("a"))
    ELSE IF parse_prefix_expr(input).ok THEN parse_prefix_expr(input)
    ELSE IF tag(input, "LParen")
         THEN LET r == parse_expr(Tail(input))
              IN IF r.ok /\ tag(r.rest, "RParen") THEN POk(Tail(r.rest), r.expr)
                 ELSE PErr(input)
    ELSE parse_delimited_exprs(input, "LBracket", "RBracket")

\* parse_pratt_expr.
parse_pratt_expr(input, precedence) ==
    LET r == parse_atom_expr(input)
    IN IF r.ok THEN go_parse_pratt_expr(r.rest, precedence, r.expr) ELSE r

\* go_parse_pratt_expr: the arms of its match in order; an input at its end
\* returns left.
go_parse_pratt_expr(input, precedence, left) ==
    IF input = <<>> THEN POk(input, left)
    ELSE LET preview == input[1]
             p == infix_op(preview)
         IN IF p.prec = Precedence.PCall /\ precedence < Precedence.PCall
            THEN IF preview = "LParen"
                 THEN LET r == parse_call_expr(input, left)
                      IN IF r.ok THEN go_parse_pratt_expr(r.rest, precedence, r.expr) ELSE r
                 ELSE LET r == parse_method_call_expr(input, left)
                      IN IF r.ok THEN go_parse_pratt_expr(r.rest, precedence, r.expr) ELSE r
            ELSE IF p.prec = Precedence.PIndex /\ precedence < Precedence.PIndex
            THEN LET r == parse_index_expr(input, left)
                 IN IF r.ok THEN go_parse_pratt_expr(r.rest, precedence, r.expr) ELSE r
            ELSE IF precedence < p.prec
            THEN LET r == parse_infix_expr(input, left)
                 IN IF r.ok THEN go_parse_pratt_expr(r.rest, precedence, r.expr) ELSE r
            ELSE POk(input, left)

\* parse_infix_expr.
parse_infix_expr(input, left) ==
    IF input = <<>> \/ infix_op(input[1]).op = <<>> THEN PErr(input)
    ELSE LET r == parse_pratt_expr(Tail(input), infix_op(input[1]).prec)
         IN IF r.ok THEN POk(r.rest, InfixExpr(infix_op(input[1]).op[1], left, r.expr))
            ELSE PErr(input)

\* parse_call_expr.
parse_call_expr(input, fn_handle) ==
    LET r == parse_delimited_exprs(input, "LParen", "RParen")
    IN IF r.ok THEN POk(r.rest, CallExpr(fn_handle, r.expr.args)) ELSE r

\* parse_index_expr: delimited(lbracket_tag, parse_expr, rbracket_tag).
parse_index_expr(input, arr) ==
    IF ~tag(input, "LBracket") THEN PErr(input)
    ELSE LET r == parse_expr(Tail(input))
         IN IF r.ok /\ tag(r.rest, "RBracket")
            THEN POk(Tail(r.rest), IndexExpr(arr, r.expr)) ELSE PErr(input)

\* parse_method_call_expr: a dot and a name, then a method call when a
\* parenthesis follows and a field access otherwise.
parse_method_call_expr(input, object) ==
    IF ~(tag(input, "Dot") /\ tag(Tail(input), "Ident")) THEN PErr(input)
    ELSE LET i2 == Tail(Tail(input))
         IN IF tag(i2, "LParen")
            THEN LET r == parse_delimited_exprs(i2, "LParen", "RParen")
                 IN IF r.ok THEN POk(r.rest, MethodCallExpr(object, "a", r.expr.args)) ELSE r
            ELSE POk(i2, FieldAccessExpr(object, "a"))

\* The token sequences parsed: a prefix operator or nothing, then identifiers,
\* parentheses, brackets and dots.
PrefixTokens == {"Plus", "Minus", "Not"}
SuffixTokens == {"Ident", "LParen", "RParen", "Dot", "LBracket", "RBracket"}

\* The lexer hands over one more token of the expression.
NextToken(t) ==
    /\ parse.pc = "ready"
    /\ IF parse.tokens = <<>> THEN t \in PrefixTokens \cup SuffixTokens
       ELSE /\ t \in SuffixTokens
            /\ Len(parse.tokens) < MaxTokens + (IF parse.tokens[1] \in PrefixTokens THEN 1 ELSE 0)
    /\ parse' = [parse EXCEPT !.tokens = Append(parse.tokens, t)]
    /\ UNCHANGED <<envVars, blockVars, tryVars, asyncVars, moduleVars, calc, otherVars>>

\* Parser::parse_tokens on one expression, up to the end of the input.
ParseExpr ==
    /\ parse.pc = "ready"
    /\ LET r == parse_expr(parse.tokens)
       IN parse' = [tokens |-> parse.tokens, pc |-> "done", ok |-> r.ok /\ r.rest = <<>>,
                    rest |-> <<r.expr>>]
    /\ UNCHANGED <<envVars, blockVars, tryVars, asyncVars, moduleVars, calc, otherVars>>

NextParse == (\E t \in PrefixTokens \cup SuffixTokens : NextToken(t)) \/ ParseExpr

\* The lexer at the start of an expression.
InitParse ==
    /\ EnvInit /\ BlockIdle /\ TryInit /\ AsyncInit
    /\ ModuleInit /\ fsys = [p \in ModPaths |-> NoFile] /\ CalcIdle /\ OtherIdle
    /\ parse = [tokens |-> <<>>, pc |-> "ready", ok |-> FALSE, rest |-> <<>>]

SpecParse == InitParse /\ [][NextParse]_vars

(***************************************************************************)
(* Claims on the parser (checked under SpecParse)                          *)
(***************************************************************************)

\* The call, method-call, field-access and index forms on the atom a, each
\* with the expression it denotes.
PostfixForms ==
    { [toks |-> <<"Ident", "LParen", "RParen">>, expr |-> CallExpr(IdentExpr("a"), <<>>)],
      [toks |-> <<"Ident", "LParen", "Ident", "RParen">>,
       expr |-> CallExpr(IdentExpr("a"), <<IdentExpr("a")>>)],
      [toks |-> <<"Ident", "Dot", "Ident", "LParen", "RParen">>,
       expr |-> MethodCallExpr(IdentExpr("a"), "a", <<>>)],
      [toks |-> <<"Ident", "Dot", "Ident">>, expr |-> FieldAccessExpr(IdentExpr("a"), "a")],
      [toks |-> <<"Ident", "LBracket", "Ident", "RBracket">>,
       expr |-> IndexExpr(IdentExpr("a"), IdentExpr("a"))] }

\* C21 as claimed: for a prefix operator p the token sequences `p a(args)`,
\* `p a.m(args)`, `p a.f` and `p a[i]` parse as Prefix(p, form(a, ..)), the
\* postfix form binding tighter than the prefix operator.
C21_PostfixBindsTighterThanPrefix ==
    \A form \in PostfixForms, t \in PrefixTokens :
       (parse.pc = "done" /\ parse.tokens = <<t>> \o form.toks)
       => parse.ok /\ parse.rest = <<PrefixExpr(prefix_of(t), form.expr)>>

\* What the parser does: every such sequence parses as the postfix form applied
\* to Prefix(p, a).
C21_PrefixBindsTighterThanPostfix ==
    \A form \in PostfixForms, t \in PrefixTokens :
       (parse.pc = "done" /\ parse.tokens = <<t>> \o form.toks)
       => /\ parse.ok
          /\ parse.rest[1].e = form.expr.e
          /\ parse.rest[1].args[1] = PrefixExpr(prefix_of(t), IdentExpr("a"))

(***************************************************************************)
(* AWAIT VALIDATION  (parser/await_ctx_helpers.rs)                         *)
(***************************************************************************)

\* The variables of the parts before this one, and their values when unused.
earlyVars == <<envVars, blockVars, tryVars, asyncVars, moduleVars, calc, parse>>

EarlyIdle ==
    /\ EnvInit /\ BlockIdle /\ TryInit /\ AsyncInit
    /\ ModuleInit /\ fsys = [p \in ModPaths |-> NoFile] /\ CalcIdle /\ ParseIdle

\* Bound of the await part: the nesting depth of the programs validated.
MaxDepth == 3

\* Statements and expressions of ast.rs as one kind of node: the variant and
\* its sub-terms in declaration order.  A Program inside a node is a Block.
Node(kind, kids) == Ex(kind, "", "", Null, kids)
Block(stmts) == Node("Block", stmts)
AwaitExpr(e) == Node("Await", <<e>>)
ThisExpr == Node("This", <<>>)

StmtKinds ==
    { "LetStmt", "AssignStmt", "ExprStmt", "ExprValueStmt", "ReturnStmt", "ThrowStmt",
      "FnStmt", "BreakStmt", "ContinueStmt", "ImportStmt", "FieldAssignStmt",
      "IndexAssignStmt", "StructStmt" }

\* Result<(), ParserError> of the validation.
AwaitOk == "Ok"
AwaitOutsideAsync == "AwaitOutsideAsync"

RECURSIVE verify_await_in_stmt(_, _)
RECURSIVE verify_await_in_expr(_, _)

\* `for s in body { verify_await_in_stmt(s, in_async)?; } Ok(())`.
verify_await_in_async(program, in_async) ==
    IF \A i \in 1..Len(program) : verify_await_in_stmt(program[i], in_async) = AwaitOk
    THEN AwaitOk ELSE AwaitOutsideAsync

\* `for e in exprs { verify_await_in_expr(e, in_async)?; } Ok(())`.
verify_await_in_exprs(exprs, in_async) ==
    IF \A i \in 1..Len(exprs) : verify_await_in_expr(exprs[i], in_async) = AwaitOk
    THEN AwaitOk ELSE AwaitOutsideAsync

\* The first error of a sequence of checks.
AllOk(results) ==
    IF \A i \in 1..Len(results) : results[i] = AwaitOk THEN AwaitOk ELSE AwaitOutsideAsync

verify_await_in_stmt(stmt, in_async) ==
    CASE stmt.e \in {"LetStmt", "AssignStmt", "ExprStmt", "ExprValueStmt", "ReturnStmt",
                     "ThrowStmt"} ->
            verify_await_in_expr(stmt.args[1], in_async)
      [] stmt.e = "FnStmt" -> verify_await_in_async(stmt.args, FALSE)
      [] stmt.e \in {"BreakStmt", "ContinueStmt"} -> AwaitOk
      [] stmt.e \in {"ImportStmt", "FieldAssignStmt", "IndexAssignStmt"} -> AwaitOk
      [] stmt.e = "StructStmt" -> verify_await_in_exprs(stmt.args, FALSE)

verify_await_in_expr(expr, in_async) ==
    CASE expr.e \in {"Ident", "Lit"} -> AwaitOk
      [] expr.e = "Prefix" -> verify_await_in_expr(expr.args[1], in_async)
      [] expr.e = "Infix" -> verify_await_in_exprs(expr.args, in_async)
      [] expr.e = "If" ->
            AllOk(<<verify_await_in_expr(expr.args[1], in_async)>>
                  \o [i \in 1..(Len(expr.args) - 1) |->
                        verify_await_in_async(expr.args[i + 1].args, in_async)])
      [] expr.e = "FnExpr" -> verify_await_in_async(expr.args, FALSE)
      [] expr.e = "AsyncFnExpr" -> verify_await_in_async(expr.args, TRUE)
      [] expr.e \in {"Call", "Array", "Hash", "Index", "MethodCall"} ->
            verify_await_in_exprs(expr.args, in_async)
      [] expr.e = "ForExpr" -> AwaitOk
      [] expr.e = "WhileExpr" -> AwaitOk
      [] expr.e = "TryCatch" ->
            AllOk([i \in 1..Len(expr.args) |->
                     verify_await_in_async(expr.args[i].args, in_async)])
      [] expr.e = "Await" -> IF in_async THEN AwaitOk ELSE AwaitOutsideAsync
      [] expr.e \in {"StructLiteral", "This", "FieldAccess", "CStyleForExpr"} -> AwaitOk

validate_await_usage(program) == verify_await_in_async(program, FALSE)

\* A node in statement position.
AsStmt(n) == IF n.e \in StmtKinds THEN n ELSE Node("ExprStmt", <<n>>)

\* The places of a program an expression can stand in.
ExprPlaces ==
    { "WhileCond", "ForIterable", "CStyleForCond", "StructLiteralField", "FieldAccessObject",
      "FieldAssignValue", "IndexAssignValue", "AwaitOperand", "CallArgument", "LetValue" }

\* The places of a program a statement can stand in.
StmtPlaces ==
    { "WhileBody", "ForBody", "CStyleForBody", "IfConsequence", "FnExprBody",
      "AsyncFnExprBody", "FnStmtBody", "StructMethodBody" }

\* The program with n standing in the given place.
Enclose(place, n) ==
    CASE place = "WhileCond" -> Node("WhileExpr", <<n, Block(<<>>)>>)
      [] place = "WhileBody" -> Node("WhileExpr", <<LitExpr(Boolean(TRUE)), Block(<<AsStmt(n)>>)>>)
      [] place = "ForIterable" -> Node("ForExpr", <<n, Block(<<>>)>>)
      [] place = "ForBody" -> Node("ForExpr", <<IdentExpr("a"), Block(<<AsStmt(n)>>)>>)
      [] place = "CStyleForCond" ->
            Node("CStyleForExpr", <<Node("BreakStmt", <<>>), n, Node("BreakStmt", <<>>),
                                    Block(<<>>)>>)
      [] place = "CStyleForBody" ->
            Node("CStyleForExpr", <<Node("BreakStmt", <<>>), LitExpr(Boolean(TRUE)),
                                    Node("BreakStmt", <<>>), Block(<<AsStmt(n)>>)>>)
      [] place = "StructLiteralField" -> Node("StructLiteral", <<n>>)
      [] place = "FieldAccessObject" -> FieldAccessExpr(n, "f")
      [] place = "FieldAssignValue" -> Node("FieldAssignStmt", <<ThisExpr, n>>)
      [] place = "IndexAssignValue" ->
            Node("IndexAssignStmt", <<IdentExpr("a"), LitExpr(Integer(0)), n>>)
      [] place = "AwaitOperand" -> AwaitExpr(n)
      [] place = "CallArgument" -> CallExpr(IdentExpr("a"), <<n>>)
      [] place = "LetValue" -> Node("LetStmt", <<n>>)
      [] place = "IfConsequence" -> Node("If", <<LitExpr(Boolean(TRUE)), Block(<<AsStmt(n)>>)>>)
      [] place = "FnExprBody" -> Node("FnExpr", <<AsStmt(n)>>)
      [] place = "AsyncFnExprBody" -> Node("AsyncFnExpr", <<AsStmt(n)>>)
      [] place = "FnStmtBody" -> Node("FnStmt", <<AsStmt(n)>>)
      [] place = "StructMethodBody" -> Node("StructStmt", <<Node("FnExpr", <<AsStmt(n)>>)>>)

\* The parser builds the program around `await a`, one enclosing form at a time.
Wrap(place) ==
    /\ awaitck.pc = "building"
    /\ awaitck.depth < MaxDepth
    /\ place \in ExprPlaces => awaitck.prog.e \notin StmtKinds
    /\ awaitck' = [awaitck EXCEPT !.prog = Enclose(place, awaitck.prog),
                                  !.depth = awaitck.depth + 1,
                                  !.places = Append(awaitck.places, place)]
    /\ UNCHANGED <<earlyVars, lk, acall, shared, nest, loop>>

\* validate_await_usage on the program built.
Validate ==
    /\ awaitck.pc = "building"
    /\ awaitck' = [awaitck EXCEPT !.pc = "done",
                                  !.verdict = validate_await_usage(<<AsStmt(awaitck.prog)>>)]
    /\ UNCHANGED <<earlyVars, lk, acall, shared, nest, loop>>

NextAwait == (\E place \in ExprPlaces \cup StmtPlaces : Wrap(place)) \/ Validate

InitAwait ==
    /\ EarlyIdle
    /\ LockIdle /\ ArgsIdle /\ SharedIdle /\ NestIdle /\ LoopIdle
    /\ awaitck = [prog |-> AwaitExpr(IdentExpr("a")), depth |-> 0, places |-> <<>>,
                  pc |-> "building", verdict |-> AwaitOk]

SpecAwait == InitAwait /\ [][NextAwait]_vars

(***************************************************************************)
(* Claims on await validation (checked under SpecAwait)                    *)
(***************************************************************************)

\* Whether the program holds an Await that is not lexically inside the body of
\* an async function: the body of an ordinary function, and a struct method,
\* end the async context of what encloses them.
RECURSIVE StrayAwait(_, _)
StrayAwait(n, in_async) ==
    CASE n.e = "Await" -> ~in_async \/ StrayAwait(n.args[1], in_async)
      [] n.e \in {"FnExpr", "FnStmt", "StructStmt"} ->
            \E i \in 1..Len(n.args) : StrayAwait(n.args[i], FALSE)
      [] n.e = "AsyncFnExpr" -> \E i \in 1..Len(n.args) : StrayAwait(n.args[i], TRUE)
      [] OTHER -> \E i \in 1..Len(n.args) : StrayAwait(n.args[i], in_async)

\* C22: validate_await_usage rejects every program that holds an Await outside
\* the body of an async function, wherever the Await stands: in the condition
\* or body of a while, for-in or C-style for loop, in a struct literal's field
\* value, in the receiver of a field access, in the operands of a FieldAssign
\* or IndexAssign, or inside the operand of another Await.
C22_StrayAwaitRejected ==
    (awaitck.pc = "done" /\ StrayAwait(awaitck.prog, FALSE))
    => awaitck.verdict = AwaitOutsideAsync

\* What the validation does guarantee: a program it rejects holds such an Await.
C22_RejectedHoldsStrayAwait ==
    (awaitck.pc = "done" /\ awaitck.verdict = AwaitOutsideAsync)
    => StrayAwait(awaitck.prog, FALSE)

(***************************************************************************)
(* Claims on the result of a block (checked under SpecBlock)               *)
(***************************************************************************)

\* C23 as claimed: a block whose last statement is a semicolon-terminated
\* expression statement (Stmt::ExprStmt, the only statement parse_expr_stmt
\* builds) yields Null: when eval_blockstmt evaluates an ExprStmt as the last
\* statement of the block and its expression is not an error, the value the
\* block returns is Null.
C23_ExprStmtBlockYieldsNull ==
    [][ \A st \in Stmts :
          ( /\ EvalStatementStep(st)
            /\ st.s = "ExprStmt"
            /\ EvalExpr(st.expr, frames, env).t # "Error" )
          => /\ result' = Null
             /\ eval_blockstmt(<<st>>, frames, env).val = Null
      ]_vars

\* What eval_statement does: the value of the block is the value of the
\* expression of its last ExprStmt; the empty block yields Null.
C23_ExprStmtBlockYieldsValue ==
    /\ eval_blockstmt(<<>>, frames, env).val = Null
    /\ \A st \in Stmts :
          st.s = "ExprStmt" =>
             eval_blockstmt(<<st>>, frames, env).val = EvalExpr(st.expr, frames, env)

(***************************************************************************)
(* FRAME MUTEXES  (interpreter/env.rs, Arc<Mutex<Environment>>)            *)
(***************************************************************************)

\* Bounds of the lock part.
MaxLockFrames == 3
MaxThreads == 2
MaxLockOps == 2

LockFrames == 1..MaxLockFrames
Threads == 1..MaxThreads

\* A call in progress on a thread: the function, the frame it runs on (self)
\* and the point it has reached.
Activation(fn, f, ph) == [fn |-> fn, f |-> f, ph |-> ph]

\* The frame a frame's own lock stands for; a get or set that locked it again
\* would wait for itself.
same_env(parents, f) == f

\* Environment.parent: 0 for None.
parent_env(parents, f) == parents[f]

\* The activation on top of a thread's stack.
TopOf(t) == lk.th[t].stk[Len(lk.th[t].stk)]

LockPhases == {"lock", "lock1", "lock2"}
UnlockPhases == {"unlock", "unlock1", "unlock2"}

\* The mutex an activation is about to lock, or holds a guard of: the
\* evaluator's frame for `self.env.lock()`, the parent for `parent_env.lock()`.
LockTarget(c) == IF c.fn = "top" THEN c.f ELSE parent_env(lk.parent, c.f)

\* The call made under the guard just taken.
Callee(t, c) ==
    CASE c.fn = "top" -> Activation(lk.th[t].op, c.f, "start")
      [] c.ph = "lock2" -> Activation("set", lk.parent[c.f], "start")
      [] OTHER -> Activation("get", lk.parent[c.f], "start")

AfterLock(ph) == CASE ph = "lock" -> "unlock" [] ph = "lock1" -> "unlock1" [] ph = "lock2" -> "unlock2"

Pop(stk) == SubSeq(stk, 1, Len(stk) - 1)
ReplaceTop(stk, c) == Append(Pop(stk), c)

\* Environment::new_with_outer(Arc::clone(&self.env)) followed by the binding
\* of a parameter (or of `this`) in the new frame before it is wrapped in its
\* mutex, and by `self.env = Arc::new(Mutex::new(new_env))`.
CallFrame(t) ==
    /\ lk.pc = "running"
    /\ lk.th[t].stk = <<>>
    /\ lk.n < MaxLockFrames
    /\ lk' = [lk EXCEPT !.n = lk.n + 1,
                        !.parent[lk.n + 1] = lk.th[t].env,
                        !.th[t] = [env |-> lk.n + 1, op |-> "set", name |-> "p", ret |-> FALSE,
                                   stk |-> <<Activation("top", lk.n + 1, "unlocked"),
                                             Activation("set", lk.n + 1, "start")>>]]
    /\ UNCHANGED <<earlyVars, awaitck, acall, shared, nest, loop>>

\* `self.env.lock().unwrap().get(name)` or `.set(name, val)` is reached.
BeginOp(t, op, name) ==
    /\ lk.pc = "running"
    /\ lk.th[t].stk = <<>>
    /\ lk.nops < MaxLockOps
    /\ lk' = [lk EXCEPT !.nops = lk.nops + 1,
                        !.th[t] = [env |-> lk.th[t].env, op |-> op, name |-> name, ret |-> FALSE,
                                   stk |-> <<Activation("top", lk.th[t].env, "lock")>>]]
    /\ UNCHANGED <<earlyVars, awaitck, acall, shared, nest, loop>>

\* Mutex::lock returns: the mutex was free.  The call under the guard starts.
Lock(t) ==
    /\ lk.pc = "running"
    /\ lk.th[t].stk # <<>>
    /\ LET c == TopOf(t)
       IN /\ c.ph \in LockPhases
          /\ lk.owner[LockTarget(c)] = 0
          /\ lk' = [lk EXCEPT !.owner[LockTarget(c)] = t,
                              !.th[t].stk = Append(ReplaceTop(lk.th[t].stk,
                                                       [c EXCEPT !.ph = AfterLock(c.ph)]),
                                                   Callee(t, c))]
    /\ UNCHANGED <<earlyVars, awaitck, acall, shared, nest, loop>>

\* The part of get and set that runs on self alone (env.rs:46-52, 61, 65-67).
Local(t) ==
    /\ lk.pc = "running"
    /\ lk.th[t].stk # <<>>
    /\ LET c == TopOf(t)
           name == lk.th[t].name
           bound == name \in lk.has[c.f]
       IN /\ c.ph \in {"start", "unlocked"}
          /\ lk' =
               CASE c.fn = "top" -> [lk EXCEPT !.th[t].stk = <<>>]
                 [] c.fn = "get" /\ bound ->
                       [lk EXCEPT !.th[t].ret = TRUE, !.th[t].stk = Pop(lk.th[t].stk)]
                 [] c.fn = "get" /\ ~bound /\ lk.parent[c.f] # 0 ->
                       [lk EXCEPT !.th[t].stk = ReplaceTop(lk.th[t].stk, [c EXCEPT !.ph = "lock"])]
                 [] c.fn = "get" /\ ~bound /\ lk.parent[c.f] = 0 ->
                       [lk EXCEPT !.th[t].ret = FALSE, !.th[t].stk = Pop(lk.th[t].stk)]
                 [] c.fn = "set" /\ bound -> [lk EXCEPT !.th[t].stk = Pop(lk.th[t].stk)]
                 [] c.fn = "set" /\ ~bound /\ lk.parent[c.f] # 0 ->
                       [lk EXCEPT !.th[t].stk = ReplaceTop(lk.th[t].stk, [c EXCEPT !.ph = "lock1"])]
                 [] c.fn = "set" /\ ~bound /\ lk.parent[c.f] = 0 ->
                       [lk EXCEPT !.has[c.f] = lk.has[c.f] \cup {name},
                                  !.th[t].stk = Pop(lk.th[t].stk)]
    /\ UNCHANGED <<earlyVars, awaitck, acall, shared, nest, loop>>

\* A MutexGuard is dropped: at the end of the statement of the evaluator, at
\* the end of get's match arm, after the `if` condition of set, after the
\* recursive set.
Unlock(t) ==
    /\ lk.pc = "running"
    /\ lk.th[t].stk # <<>>
    /\ LET c == TopOf(t)
           name == lk.th[t].name
           released == [lk EXCEPT !.owner[LockTarget(c)] = 0]
       IN /\ c.ph \in UnlockPhases
          /\ lk' =
               CASE c.fn = "top" -> [released EXCEPT !.th[t].stk = <<>>]
                 [] c.fn = "get" -> [released EXCEPT !.th[t].stk = Pop(lk.th[t].stk)]
                 [] c.fn = "set" /\ c.ph = "unlock1" /\ lk.th[t].ret ->
                       [released EXCEPT !.th[t].stk =
                                           ReplaceTop(lk.th[t].stk, [c EXCEPT !.ph = "lock2"])]
                 [] c.fn = "set" /\ c.ph = "unlock1" /\ ~lk.th[t].ret ->
                       [released EXCEPT !.has[c.f] = lk.has[c.f] \cup {name},
                                        !.th[t].stk = Pop(lk.th[t].stk)]
                 [] c.fn = "set" /\ c.ph = "unlock2" ->
                       [released EXCEPT !.th[t].stk = Pop(lk.th[t].stk)]
    /\ UNCHANGED <<earlyVars, awaitck, acall, shared, nest, loop>>

NextLock ==
    \E t \in Threads :
       \/ CallFrame(t)
       \/ \E op \in {"get", "set"} : BeginOp(t, op, "x")
       \/ Lock(t)
       \/ Local(t)
       \/ Unlock(t)

\* Environment::new(): the root frame, shared by the evaluators of all tasks;
\* no mutex is held.
InitLock ==
    /\ EarlyIdle
    /\ AwaitIdle /\ ArgsIdle /\ SharedIdle /\ NestIdle /\ LoopIdle
    /\ lk = [pc |-> "running", n |-> 1, nops |-> 0,
             parent |-> [f \in LockFrames |-> 0],
             has |-> [f \in LockFrames |-> {}],
             owner |-> [f \in LockFrames |-> 0],
             th |-> [t \in Threads |->
                       [env |-> 1, op |-> "get", name |-> "x", ret |-> FALSE, stk |-> <<>>]]]

SpecLock == InitLock /\ [][NextLock]_vars

(***************************************************************************)
(* Claims on the frame mutexes (checked under SpecLock)                    *)
(***************************************************************************)

\* The frames whose mutex thread t holds.
HeldBy(t) == {f \in LockFrames : lk.owner[f] = t}

\* C24 as claimed: no thread holds the mutex of more than one frame at a time
\* (get and set release a frame's lock before acquiring the parent's).
C24_OneFrameLockAtATime == \A t \in Threads : Cardinality(HeldBy(t)) <= 1

\* What get and set do: the frames a thread holds are a chain of ancestors,
\* each locked while the frames below it stay locked.
C24_HeldFramesAreAChain ==
    \A t \in Threads : \A f \in HeldBy(t) :
       (\E g \in HeldBy(t) : g > f) => \E g \in HeldBy(t) : lk.parent[g] = f

\* Thread t waits for a mutex that is held.
Blocked(t) ==
    /\ lk.th[t].stk # <<>>
    /\ TopOf(t).ph \in LockPhases
    /\ lk.owner[LockTarget(TopOf(t))] # 0

\* C29: no set of concurrent tasks performing get and set can deadlock on the
\* frame mutexes: there is no non-empty set of threads each of which waits for
\* a mutex held by a thread of the set.
C29_NoDeadlock ==
    \A S \in SUBSET Threads :
       S # {} => ~(\A t \in S : Blocked(t) /\ lk.owner[LockTarget(TopOf(t))] \in S)

\* The parent links are acyclic: a frame's parent was created before it.
C29_ParentsAcyclic == \A f \in LockFrames : lk.parent[f] < f

\* C29's case: a thread that holds a frame's mutex waits for the mutex of the
\* parent, which another thread holds.
C29_Witness ==
    \E t \in Threads :
       /\ Blocked(t)
       /\ HeldBy(t) # {}
       /\ lk.owner[LockTarget(TopOf(t))] \notin {0, t}

(***************************************************************************)
(* ARGUMENTS OF AN ASYNC CALL  (helpers/eval_functions.rs)                 *)
(***************************************************************************)

\* Bound of the argument part: the number of argument expressions of the call.
MaxArgs == 3

ArgIndexes == 1..MaxArgs

\* The value argument expression i evaluates to: every argument a different one.
ArgValue(i) == Integer(i)

\* `args_futures.next().await` polls the future at the head of the ready queue:
\* an argument whose evaluation does not have to wait (any more) completes and
\* its value is pushed onto args; another one is parked until it is woken.
PollNext ==
    /\ acall.pc = "collecting"
    /\ acall.queue # <<>>
    /\ LET i == Head(acall.queue)
       IN IF acall.waits[i]
          THEN acall' = [acall EXCEPT !.queue = Tail(acall.queue),
                                      !.parked = acall.parked \cup {i}]
          ELSE acall' = [acall EXCEPT !.queue = Tail(acall.queue),
                                      !.args = Append(acall.args, ArgValue(i))]
    /\ UNCHANGED <<earlyVars, awaitck, lk, shared, nest, loop>>

\* What the evaluation of argument i waits for (the task of an async call it
\* awaits) finishes: its future is ready to be polled again.
Wake(i) ==
    /\ acall.pc = "collecting"
    /\ i \in 1..acall.nargs
    /\ acall.waits[i]
    /\ acall' = [acall EXCEPT !.waits[i] = FALSE,
                              !.parked = acall.parked \ {i},
                              !.queue = IF i \in acall.parked THEN Append(acall.queue, i)
                                        ELSE acall.queue]
    /\ UNCHANGED <<earlyVars, awaitck, lk, shared, nest, loop>>

\* The stream is exhausted: the task is spawned and binds params[i] to args[i]
\* in its new frame.
SpawnCall ==
    /\ acall.pc = "collecting"
    /\ acall.queue = <<>> /\ acall.parked = {}
    /\ acall' = [acall EXCEPT !.pc = "spawned",
                              !.bound = [i \in 1..acall.nparams |-> acall.args[i]]]
    /\ UNCHANGED <<earlyVars, awaitck, lk, shared, nest, loop>>

NextArgs == PollNext \/ (\E i \in ArgIndexes : Wake(i)) \/ SpawnCall

\* eval_async_fn_call past the arity test, the argument futures pushed in
\* source order; an argument either evaluates without waiting or waits.
InitArgs ==
    /\ EarlyIdle
    /\ AwaitIdle /\ LockIdle /\ SharedIdle /\ NestIdle /\ LoopIdle
    /\ \E nargs \in 2..MaxArgs, nparams \in 1..MaxArgs, waits \in [ArgIndexes -> BOOLEAN] :
          /\ nparams <= nargs
          /\ \A i \in ArgIndexes : i > nargs => ~waits[i]
          /\ acall = [pc |-> "collecting", nargs |-> nargs, nparams |-> nparams,
                      waits |-> waits, queue |-> [i \in 1..nargs |-> i], parked |-> {},
                      args |-> <<>>, bound |-> <<>>]

SpecArgs == InitArgs /\ [][NextArgs]_vars

(***************************************************************************)
(* Claims on the arguments of an async call (checked under SpecArgs)       *)
(***************************************************************************)

\* C25 as claimed: in the frame of the spawned task parameter p_i is bound to
\* the value of argument expression a_i, whatever order the concurrently
\* evaluated arguments complete in.
C25_ParamBoundToItsArgument ==
    acall.pc = "spawned" => \A i \in 1..acall.nparams : acall.bound[i] = ArgValue(i)

\* What the call does: parameter p_i is bound to the i-th argument value to
\* complete, and every argument value is collected once.
C25_ParamBoundToIthCompleted ==
    acall.pc = "spawned" =>
       /\ \A i \in 1..acall.nparams : acall.bound[i] = acall.args[i]
       /\ Len(acall.args) = acall.nargs
       /\ \A i \in 1..acall.nargs : \E j \in 1..acall.nargs : acall.args[j] = ArgValue(i)

(***************************************************************************)
(* INDEX ASSIGNMENT FROM CONCURRENT TASKS  (helpers/data_structures.rs)    *)
(***************************************************************************)

\* The two tasks; task t runs in frame t + 1, a child of the shared frame 1.
Tasks == {1, 2}
TaskFrame(t) == t + 1

\* Line 18 of eval_index_assign: current_value is read with
\* `self_clone.env.lock().unwrap().get(var_name)`; the guards are dropped at
\* the end of the match.
ReadCurrent(t) ==
    /\ shared.task[t].pc = "start"
    /\ shared' = [shared EXCEPT !.task[t].pc = "read",
                                !.task[t].current_value =
                                    EnvGet(shared.fs, TaskFrame(t), "x")]
    /\ UNCHANGED <<earlyVars, awaitck, lk, acall, nest, loop>>

\* Lines 23-62: the element is stored into the task's copy of the array and
\* the copy is written back with `self_clone.env.lock().unwrap().set(..)`.
WriteBack(t) ==
    /\ shared.task[t].pc = "read"
    /\ LET me == shared.task[t]
           n == obj_to_int(me.index)
           updated_value == array_store(me.current_value.in, n.v, me.value)
       IN IF n.t # "Integer" \/ updated_value.t = "Error"
          THEN shared' = [shared EXCEPT !.task[t].pc = "failed"]
          ELSE shared' = [shared EXCEPT !.task[t].pc = "done",
                                        !.fs = EnvSet(shared.fs, TaskFrame(t), "x",
                                                      updated_value)]
    /\ UNCHANGED <<earlyVars, awaitck, lk, acall, nest, loop>>

NextShared == \E t \in Tasks : ReadCurrent(t) \/ WriteBack(t)

\* Two async calls have spawned their tasks (eval_async_fn_call: a new frame
\* on the captured environment each); the captured frame binds x to an array
\* and each task is about to run `x[index] = value`, index and value evaluated.
InitShared ==
    /\ EarlyIdle
    /\ AwaitIdle /\ LockIdle /\ ArgsIdle /\ NestIdle /\ LoopIdle
    /\ \E len \in 2..(MaxArrayLen + 1), index \in [Tasks -> 0..MaxArrayLen],
          value \in [Tasks -> 1..2] :
          /\ \A t \in Tasks : index[t] < len
          /\ shared =
               [fs |-> [f \in 1..3 |->
                          IF f = 1
                          THEN [store |-> [fill_env_with_builtins EXCEPT
                                             !["x"] = Array([i \in 1..len |-> Integer(0)])],
                                parent |-> 0]
                          ELSE [store |-> fill_env_with_builtins, parent |-> 1]],
                task |-> [t \in Tasks |->
                            [pc |-> "start", index |-> Integer(index[t]),
                             value |-> Integer(value[t]), current_value |-> NoVal]]]

SpecShared == InitShared /\ [][NextShared]_vars

(***************************************************************************)
(* Claims on concurrent index assignments (checked under SpecShared)       *)
(***************************************************************************)

\* The array bound to x in the shared frame.
SharedArray == shared.fs[1].store["x"].in

\* C26 as claimed: when both tasks have completed their index assignments at
\* different in-range indices of the shared array, the array holds both
\* updates (no lost update).
C26_NoLostUpdate ==
    ( /\ \A t \in Tasks : shared.task[t].pc = "done"
      /\ shared.task[1].index # shared.task[2].index )
    => \A t \in Tasks : SharedArray[shared.task[t].index.v + 1] = shared.task[t].value

\* What the assignments guarantee: after both tasks have completed, the array
\* holds the update of the task that wrote back last.
C26_LastWriteBackKept ==
    (\A t \in Tasks : shared.task[t].pc = "done")
    => \E t \in Tasks : SharedArray[shared.task[t].index.v + 1] = shared.task[t].value

(***************************************************************************)
(* Claims on concurrent loads of a module (checked under SpecModule)       *)
(***************************************************************************)

\* Call c of load_module reads the source file in this step.
ReadsSource(c) == imports[c].pc = "reading" /\ imports'[c].pc # "reading"

\* C27 as claimed: among concurrent load_module calls for the same uncached
\* user module on one registry the source is read and evaluated at most once:
\* no call reads the file of a module while another call, having read it, is
\* evaluating it.
C27_ConcurrentLoadsReadOnce ==
    [][ \A c \in SiteIds, d \in SiteIds :
          ( /\ c # d
            /\ ReadsSource(c)
            /\ imports[d].path = imports[c].path )
          => imports[d].pc # "parsing"
      ]_vars

\* What load_module guarantees: a call that starts after the module was
\* inserted in loaded_modules does not read the file.
C27_CachedLoadsDoNotRead ==
    [][ \A c \in SiteIds : ReadsSource(c) => ~imports[c].after ]_vars

(***************************************************************************)
(* NESTED MODULE LOADS  (interpreter/module_registry.rs)                   *)
(***************************************************************************)

\* Bounds of the nested loads: the import statements of a module file and the
\* loads in progress inside one another (more than there are module files).
MaxImports == 2
MaxNest == 3

\* The user modules that have a file, and a path that has none.
NestModules == {"a", "b"}
NestPaths == NestModules \cup {"z"}

\* A module file: the paths of its import statements, in order.
ImportLists == UNION {[1..n -> NestPaths] : n \in 0..MaxImports}

\* A load_user_module in progress: the module, the loaded_modules of the child
\* registry its statements are evaluated with, and the next statement.
Load(path, child, idx) == [path |-> path, child |-> child, idx |-> idx]

\* parse_and_extract_module: the child registry starts as a copy of the
\* loaded_modules of the registry load_module was called on.
ChildRegistry(loaded_modules) == loaded_modules

NestTop == nest.stk[Len(nest.stk)]

\* The import statement extract_exports is about to evaluate, "" at the end
\* of the program.
NextImport ==
    IF NestTop.idx <= Len(nest.files[NestTop.path])
    THEN nest.files[NestTop.path][NestTop.idx] ELSE ""

Advance == [nest EXCEPT !.stk[Len(nest.stk)].idx = NestTop.idx + 1]

\* load_module on the child registry finds the module in loaded_modules.
NestCached ==
    /\ nest.pc = "loading"
    /\ NextImport # "" /\ NextImport \in NestTop.child
    /\ nest' = Advance
    /\ UNCHANGED <<earlyVars, awaitck, lk, acall, shared, loop>>

\* load_user_module cannot read the file: Err, which eval_import turns into
\* an Error value that extract_exports drops.
NestMissing ==
    /\ nest.pc = "loading"
    /\ NextImport # "" /\ NextImport \notin NestTop.child
    /\ NextImport \notin NestModules
    /\ nest' = Advance
    /\ UNCHANGED <<earlyVars, awaitck, lk, acall, shared, loop>>

\* load_user_module reads and parses the file and starts to evaluate it with
\* a new child registry and evaluator.  Of a chain of more than MaxNest loads
\* the innermost MaxNest are kept: the outer ones wait for them.  entered is
\* the parity of the number of loads entered so far.
NestEnter ==
    /\ nest.pc = "loading"
    /\ NextImport # "" /\ NextImport \notin NestTop.child
    /\ NextImport \in NestModules
    /\ IF Len(nest.stk) < MaxNest
       THEN nest' = [nest EXCEPT !.entered = (nest.entered + 1) % 2,
                                 !.stk = Append(nest.stk,
                                     Load(NextImport, ChildRegistry(NestTop.child), 1))]
       ELSE nest' = [nest EXCEPT !.outer = TRUE,
                                 !.entered = (nest.entered + 1) % 2,
                                 !.stk = Append(Tail(nest.stk),
                                     Load(NextImport, ChildRegistry(NestTop.child), 1))]
    /\ UNCHANGED <<earlyVars, awaitck, lk, acall, shared, loop>>

\* extract_exports reaches the end of the program: the module is inserted in
\* the loaded_modules of the registry load_module was called on and returned.
NestReturn ==
    /\ nest.pc = "loading"
    /\ NextImport = ""
    /\ Len(nest.stk) = 1 => ~nest.outer
    /\ IF Len(nest.stk) = 1
       THEN nest' = [nest EXCEPT !.pc = "returned", !.stk = <<>>,
                                 !.root = nest.root \cup {NestTop.path}]
       ELSE nest' = [nest EXCEPT
                       !.stk = [i \in 1..(Len(nest.stk) - 1) |->
                                  IF i = Len(nest.stk) - 1
                                  THEN [nest.stk[i] EXCEPT
                                          !.child = @ \cup {NestTop.path},
                                          !.idx = @ + 1]
                                  ELSE nest.stk[i]]]
    /\ UNCHANGED <<earlyVars, awaitck, lk, acall, shared, loop>>

NextNest == NestCached \/ NestMissing \/ NestEnter \/ NestReturn

\* load_module(registry, start) on a registry with nothing loaded has missed
\* the cache; the files of the user modules hold any import statements.
InitNest ==
    /\ EarlyIdle
    /\ AwaitIdle /\ LockIdle /\ ArgsIdle /\ SharedIdle /\ LoopIdle
    /\ \E files \in [NestModules -> ImportLists], start \in NestModules :
          nest = [pc |-> "loading", files |-> files, root |-> {}, outer |-> FALSE,
                  entered |-> 1,
                  stk |-> <<Load(start, ChildRegistry({}), 1)>>]

\* The executor keeps polling the future of the load: a load that can take a
\* step takes one.
SpecNest == InitNest /\ [][NextNest]_vars /\ WF_vars(NextNest)

(***************************************************************************)
(* Claims on nested module loads (checked under SpecNest)                  *)
(***************************************************************************)

\* The modules with a file that module m imports.
ImportsOf(m) == {nest.files[m][i] : i \in 1..Len(nest.files[m])} \cap NestModules

\* The modules reachable from m along import statements.
ImportClosure(m) ==
    LET one == ImportsOf(m)
    IN one \cup UNION {ImportsOf(n) : n \in one}

\* No module imports itself, directly or through other modules.
AcyclicImports == \A m \in NestModules : m \notin ImportClosure(m)

\* C28 as claimed: load_module terminates for every finite set of user module
\* files, modules that import each other cyclically or import themselves
\* included: the outermost load_module eventually returns.
C28_LoadModuleReturns == <>(nest.pc = "returned")

\* What the loader guarantees: the outermost load_module returns when no
\* module imports itself directly or through other modules.
C28_AcyclicLoadReturns == AcyclicImports => <>(nest.pc = "returned")

\* Once the chain of loads has outgrown the number of module files, the loads
\* that wait below the innermost MaxNest are never returned to.
C28_OuterLoadsNeverResumed ==
    nest.outer => ~(Len(nest.stk) = 1 /\ NextImport = "")

\* A module under load is not in the loaded_modules of the registries of the
\* loads nested inside it, so an import of it from inside starts it again.
C28_LoadInProgressNotCached ==
    \A i \in 1..Len(nest.stk), j \in 1..Len(nest.stk) :
       i <= j => nest.stk[i].path \notin nest.stk[j].child

(***************************************************************************)
(* LOOPS  (helpers/eval_control_flow.rs)                                   *)
(***************************************************************************)

\* Bound of the loop part: the iterations of the loop followed.
MaxIters == 3

\* The values the body of the loop, a block, can evaluate to.
BodyResults ==
    { Null, Integer(1), Break, Continue, ReturnValue(Integer(1)),
      TypeMismatch("boolean", "integer"), eval_throw(Integer(1)) }

\* The values the update statement of a C-style for can evaluate to.
UpdateResults == { Integer(1), TypeMismatch("boolean", "integer") }

\* The match on the result of the body, the same in the three loops: whether
\* the loop returns and with what.
loop_match(object) ==
    CASE object.t = "Break" -> [returns |-> TRUE, val |-> Null]
      [] object.t = "Continue" -> [returns |-> FALSE, val |-> Null]
      [] object.t = "ReturnValue" -> [returns |-> TRUE, val |-> object]
      [] object.t = "Error" -> [returns |-> TRUE, val |-> object]
      [] OTHER -> [returns |-> FALSE, val |-> Null]

\* The loop after an iteration whose body evaluated to body.
AfterBody(body) ==
    [loop EXCEPT !.iters = loop.iters + 1,
                 !.body = body,
                 !.pc = IF loop_match(body).returns THEN "done" ELSE "running",
                 !.result = loop_match(body).val]

\* eval_while: the condition is true and the body is evaluated.
WhileIteration(body) ==
    /\ loop.kind = "while" /\ loop.pc = "running" /\ loop.iters < MaxIters
    /\ loop' = AfterBody(body)
    /\ UNCHANGED <<earlyVars, awaitck, lk, acall, shared, nest>>

\* eval_while: the condition is false.
WhileExit ==
    /\ loop.kind = "while" /\ loop.pc = "running"
    /\ loop' = [loop EXCEPT !.pc = "done", !.result = Null]
    /\ UNCHANGED <<earlyVars, awaitck, lk, acall, shared, nest>>

\* eval_for: the next item is bound and the body is evaluated.
ForIteration(body) ==
    /\ loop.kind = "for" /\ loop.pc = "running" /\ loop.iters < loop.items
    /\ loop' = AfterBody(body)
    /\ UNCHANGED <<earlyVars, awaitck, lk, acall, shared, nest>>

\* eval_for: no item is left.
ForExit ==
    /\ loop.kind = "for" /\ loop.pc = "running" /\ loop.iters = loop.items
    /\ loop' = [loop EXCEPT !.pc = "done", !.result = Null]
    /\ UNCHANGED <<earlyVars, awaitck, lk, acall, shared, nest>>

\* eval_c_style_for: the condition is true, the body is evaluated and, when
\* the loop goes on, the update statement; an Error of the update returns.
CStyleForIteration(body, update) ==
    /\ loop.kind = "cfor" /\ loop.pc = "running" /\ loop.iters < MaxIters
    /\ loop' = IF ~loop_match(body).returns /\ update.t = "Error"
               THEN [AfterBody(body) EXCEPT !.pc = "done", !.result = update]
               ELSE AfterBody(body)
    /\ UNCHANGED <<earlyVars, awaitck, lk, acall, shared, nest>>

\* eval_c_style_for: the condition is false.
CStyleForExit ==
    /\ loop.kind = "cfor" /\ loop.pc = "running"
    /\ loop' = [loop EXCEPT !.pc = "done", !.result = Null]
    /\ UNCHANGED <<earlyVars, awaitck, lk, acall, shared, nest>>

NextLoop ==
    \/ \E body \in BodyResults : WhileIteration(body)
    \/ WhileExit
    \/ \E body \in BodyResults : ForIteration(body)
    \/ ForExit
    \/ \E body \in BodyResults, update \in UpdateResults : CStyleForIteration(body, update)
    \/ CStyleForExit

\* A loop is entered: a while, a for-in over an array of some length, or a
\* C-style for whose init statement succeeded.
InitLoop ==
    /\ EarlyIdle
    /\ AwaitIdle /\ LockIdle /\ ArgsIdle /\ SharedIdle /\ NestIdle
    /\ \E kind \in {"while", "for", "cfor"}, items \in 0..MaxIters :
          /\ kind # "for" => items = 0
          /\ loop = [kind |-> kind, pc |-> "running", items |-> items, iters |-> 0,
                     body |-> Null, result |-> Null]

SpecLoop == InitLoop /\ [][NextLoop]_vars

(***************************************************************************)
(* Claims on loops (checked under SpecLoop)                                *)
(***************************************************************************)

\* C30 as claimed: when the body of a while, for-in or C-style for loop
\* evaluates to a ThrownValue, the loop ends at once and that ThrownValue is
\* the result of the loop.
C30_ThrownValueEndsLoop ==
    (loop.iters > 0 /\ loop.body.t = "ThrownValue")
    => loop.pc = "done" /\ loop.result = loop.body

\* What the loops do: ReturnValue and Error end the loop and are its result,
\* Break ends it with Null, and every other body value lets it go on.
C30_ReturnAndErrorEndLoop ==
    /\ (loop.iters > 0 /\ loop.body.t \in {"ReturnValue", "Error"})
       => loop.pc = "done" /\ loop.result = loop.body
    /\ (loop.iters > 0 /\ loop.body.t = "Break") => loop.pc = "done" /\ loop.result = Null
    /\ loop.pc = "done" => loop.result.t # "ThrownValue"

====
